---------------------------- MODULE Spec2Model ----------------------------
(***************************************************************************)
(* Model of the Solidity source analyzer (src/src/utils/solidityParser.ts) *)
(* and of the mapping-rule engine that consumes its result                 *)
(* (src/unnamed/part_000).                                                 *)
(*                                                                         *)
(* Text.  A JavaScript string is modelled as a sequence of lexemes.  A     *)
(* lexeme is either a word (one or more \w characters), one white-space    *)
(* character, or a run of equal punctuation characters.  The vocabulary    *)
(* below is chosen so that no literal of any regular expression of the     *)
(* source, and no word of the vocabulary, occurs inside another word or    *)
(* across the border of two lexemes; on texts over this vocabulary a       *)
(* character-level match is therefore a lexeme-level match, and a          *)
(* character class applies to all characters of a lexeme alike.            *)
(***************************************************************************)
EXTENDS Integers, Sequences, FiniteSets, TLC

\* ------------------------------------------------------------------------
\* Vocabulary
\* ------------------------------------------------------------------------
Space == {" ", "\n"}

Keywords == {"contract", "interface", "library", "is", "mapping", "address",
             "uint256", "bool", "string", "public", "private", "internal",
             "external", "constant", "immutable", "function", "pure", "view",
             "payable", "returns", "event", "indexed", "constructor",
             "memory"}

Idents == {"A", "B", "C", "D", "I", "M", "foo", "bar", "baz", "amt", "from",
           "balances", "total", "owner", "seen", "Sent", "pragma", "solidity",
           "import", "0", "8", "Ownable", "ERC721",
           "AccessControl", "roles", "transfer", "approve", "Approve",
           "transferFrom", "transferfrom"}

\* the names f1, f2, ... and v1, v2, ... of generated members
Numbered == {p \o ToString(j) : p \in {"f", "v"}, j \in 1..20}

Word == Keywords \cup Idents \cup Numbered

Punct == {"{", "}", "(", ")", "[", "]", ",", ";", "=", ">", ".", "^", "//", "\"", "'"}

Lexeme == Word \cup Space \cup Punct

\* ------------------------------------------------------------------------
\* Generic sequence helpers
\* ------------------------------------------------------------------------
RECURSIVE Flatten(_)
Flatten(ss) == IF Len(ss) = 0 THEN <<>> ELSE Head(ss) \o Flatten(Tail(ss))

RECURSIVE SumSeq(_)
SumSeq(ns) == IF Len(ns) = 0 THEN 0 ELSE Head(ns) + SumSeq(Tail(ns))

\* String.prototype.slice(a, b) with 0-based a <= length, on 1-based sequences:
\* Slice(t, a, b) is t.slice(a, b); an end before the start gives "".
Slice(t, a, b) == IF b <= a THEN <<>> ELSE SubSeq(t, a + 1, b)

\* String.prototype.includes: needle occurs as a contiguous part of t.
Includes(t, needle) ==
    \E i \in 0..(Len(t) - Len(needle)) : SubSeq(t, i + 1, i + Len(needle)) = needle

\* String.prototype.startsWith
StartsWith(t, prefix) ==
    Len(t) >= Len(prefix) /\ SubSeq(t, 1, Len(prefix)) = prefix

\* ------------------------------------------------------------------------
\* Regular expressions (ECMAScript backtracking semantics)
\* ------------------------------------------------------------------------
\* Constructors of the expression tree.
In(S)     == [op |-> "in", s |-> S]            \* one lexeme of class S
NotIn(S)  == [op |-> "notin", s |-> S]         \* [^...]
Lit(w)    == In({w})
Cat(rs)   == [op |-> "cat", a |-> rs]
Alt(rs)   == [op |-> "alt", a |-> rs]
Star(r)   == [op |-> "star", r |-> r]          \* greedy r*
Plus(r)   == Cat(<<r, Star(r)>>)               \* r+
Opt(r)    == Alt(<<r, Cat(<<>>)>>)             \* greedy r?
Cap(k, r) == [op |-> "cap", k |-> k, r |-> r]  \* k-th capture group
Bol       == [op |-> "bol"]                    \* ^ under the m flag
WordB     == [op |-> "wordb"]                  \* \b

NoCaps == [k \in 1..3 |-> <<0, 0>>]

IsWordAt(t, p) == p >= 1 /\ p <= Len(t) /\ t[p] \in Word

Fail == [ok |-> FALSE]

\* Run(todo, t, p, c): the backtracking matcher.  todo is the sequence of
\* expressions still to be matched one after the other, p the position
\* (1-based index of the next lexeme) and c the captures so far.  The result
\* is the first way to match all of todo that the matcher finds: alternatives
\* are tried from left to right, a star first tries one more round.
\* how many lexemes from position p on are of the class r (In or NotIn)
RunLength(r, t, p) ==
    LET Fits(q) == q <= Len(t) /\ (IF r.op = "in" THEN t[q] \in r.s ELSE t[q] \notin r.s)
        stops   == {q \in p..(Len(t) + 1) : ~Fits(q)}
    IN  (CHOOSE q \in stops : \A q2 \in stops : q <= q2) - p

RECURSIVE Run(_, _, _, _), LongestIn(_, _, _, _, _, _)
\* the most rounds in lo..hi after which the rest matches, hi tried first;
\* the range is halved so that the search is no deeper than its logarithm
LongestIn(rest, t, p, c, lo, hi) ==
    IF lo = hi THEN Run(rest, t, p + lo, c)
    ELSE LET mid   == (lo + hi + 1) \div 2
             upper == LongestIn(rest, t, p, c, mid, hi)
         IN  IF upper.ok THEN upper ELSE LongestIn(rest, t, p, c, lo, mid - 1)

\* a greedy star of a class that can take k lexemes at p: the most rounds,
\* k first, after which the rest matches
Longest(rest, t, p, c, k) == LongestIn(rest, t, p, c, 0, k)

Run(todo, t, p, c) ==
    IF Len(todo) = 0 THEN [ok |-> TRUE, e |-> p, c |-> c]
    ELSE
    LET r    == Head(todo)
        rest == Tail(todo)
    IN  CASE r.op = "in" ->
               IF p <= Len(t) /\ t[p] \in r.s THEN Run(rest, t, p + 1, c) ELSE Fail
          [] r.op = "notin" ->
               IF p <= Len(t) /\ t[p] \notin r.s THEN Run(rest, t, p + 1, c) ELSE Fail
          [] r.op = "bol" ->
               IF p = 1 \/ t[p - 1] = "\n" THEN Run(rest, t, p, c) ELSE Fail
          [] r.op = "wordb" ->
               IF IsWordAt(t, p - 1) # IsWordAt(t, p) THEN Run(rest, t, p, c) ELSE Fail
          [] r.op = "cat" -> Run(r.a \o rest, t, p, c)
          [] r.op = "alt" ->
               IF Len(r.a) = 0 THEN Fail
               ELSE LET first == Run(<<Head(r.a)>> \o rest, t, p, c)
                    IN  IF first.ok THEN first
                        ELSE Run(<<Alt(Tail(r.a))>> \o rest, t, p, c)
          [] r.op = "star" /\ r.r.op \in {"in", "notin"} ->
               Longest(rest, t, p, c, RunLength(r.r, t, p))
          [] r.op = "star" ->
               LET more == Run(<<r.r, [op |-> "moved", p |-> p], r>> \o rest, t, p, c)
               IN  IF more.ok THEN more ELSE Run(rest, t, p, c)
          [] r.op = "moved" ->   \* a round of a star that matched "" is given up
               IF p > r.p THEN Run(rest, t, p, c) ELSE Fail
          [] r.op = "cap" ->
               Run(<<r.r, [op |-> "capend", k |-> r.k, p |-> p]>> \o rest, t, p, c)
          [] r.op = "capend" ->
               Run(rest, t, p, [c EXCEPT ![r.k] = <<r.p, p>>])

NoMatch == [found |-> FALSE]

\* The leftmost start in lo..hi (0-based) at which r matches, with the first
\* way the matcher finds there.  The starts are tried from left to right; the
\* range is halved so that the search is no deeper than its logarithm.
RECURSIVE ExecIn(_, _, _, _)
ExecIn(r, t, lo, hi) ==
    IF lo = hi
    THEN LET m == Run(<<r>>, t, lo + 1, NoCaps)
         IN  IF m.ok
             THEN [found |-> TRUE, index |-> lo, end |-> m.e - 1, c |-> m.c]
             ELSE NoMatch
    ELSE LET mid  == (lo + hi) \div 2
             left == ExecIn(r, t, lo, mid)
         IN  IF left.found THEN left ELSE ExecIn(r, t, mid + 1, hi)

\* RegExp.prototype.exec from lastIndex `from` (0-based): the leftmost start
\* at which r matches, with the first way the matcher finds there.
Exec(r, t, from) ==
    IF from > Len(t) THEN NoMatch ELSE ExecIn(r, t, from, Len(t))

\* String.prototype.match with a non-global expression.
Match(r, t) == Exec(r, t, 0)

\* String.prototype.matchAll with a global expression: successive matches,
\* each search starting where the previous match ended (one further after an
\* empty match).
RECURSIVE MatchAll(_, _, _)
MatchAll(r, t, from) ==
    LET m == Exec(r, t, from)
    IN  IF ~m.found THEN <<>>
        ELSE <<m>> \o MatchAll(r, t, IF m.end = m.index THEN m.end + 1 ELSE m.end)

\* m[0] and m[k] of a match m on text t (m[k] is "" when the group took no part).
Whole(t, m)    == Slice(t, m.index, m.end)
Group(t, m, k) == IF m.c[k] = <<0, 0>> THEN <<>> ELSE SubSeq(t, m.c[k][1], m.c[k][2] - 1)
HasGroup(m, k) == m.c[k] # <<0, 0>>


\* ------------------------------------------------------------------------
\* String helpers used by the parser
\* ------------------------------------------------------------------------
\* String.prototype.split(d) for a one-character separator d.
\* the k-th piece of t, cut at the positions cuts of the separator
Piece(t, cuts, k) ==
    SubSeq(t, IF k = 1 THEN 1 ELSE cuts[k - 1] + 1,
              IF k = Len(cuts) + 1 THEN Len(t) ELSE cuts[k] - 1)

PiecesAt(t, cuts) == [k \in 1..(Len(cuts) + 1) |-> Piece(t, cuts, k)]

SplitOn(t, d) == PiecesAt(t, SelectSeq([i \in 1..Len(t) |-> i], LAMBDA i : t[i] = d))

\* String.prototype.trim
RECURSIVE TrimLeft(_), TrimRight(_)
TrimLeft(t)  == IF Len(t) > 0 /\ t[1] \in Space THEN TrimLeft(Tail(t)) ELSE t
TrimRight(t) == IF Len(t) > 0 /\ t[Len(t)] \in Space
                THEN TrimRight(SubSeq(t, 1, Len(t) - 1)) ELSE t
Trim(t) == TrimRight(TrimLeft(t))

\* String.prototype.split(/\s+/): the pieces between maximal white-space runs
\* (a leading or trailing run leaves an empty piece).
RECURSIVE SplitWs(_)
SplitWs(t) ==
    IF \A i \in 1..Len(t) : t[i] \notin Space THEN <<t>>
    ELSE LET i == CHOOSE j \in 1..Len(t) :
                     t[j] \in Space /\ \A k \in 1..(j - 1) : t[k] \notin Space
         IN  <<SubSeq(t, 1, i - 1)>> \o SplitWs(TrimLeft(SubSeq(t, i, Len(t))))

\* Array.prototype.filter(Boolean) on an array of strings
NonEmpty(ts) == SelectSeq(ts, LAMBDA x : Len(x) > 0)

MapSeq(ts, Op(_)) == [j \in 1..Len(ts) |-> Op(ts[j])]

\* A JavaScript string literal of one word.
Str(w) == <<w>>

\* a || b on strings
OrElse(a, b) == IF Len(a) > 0 THEN a ELSE b

\* String.prototype.toLowerCase, lexeme by lexeme
LowerLex(w) ==
    CASE w = "A" -> "a" [] w = "B" -> "b" [] w = "C" -> "c" [] w = "D" -> "d"
      [] w = "I" -> "i" [] w = "M" -> "m" [] w = "Sent" -> "sent"
      [] w = "Ownable" -> "ownable" [] w = "ERC721" -> "erc721"
      [] w = "AccessControl" -> "accesscontrol"
      [] w = "transferFrom" -> "transferfrom" [] w = "Approve" -> "approve"
      [] OTHER -> w
Lower(t) == [j \in 1..Len(t) |-> LowerLex(t[j])]

\* ------------------------------------------------------------------------
\* The regular expressions of regexFallbackParser
\* ------------------------------------------------------------------------
Ws == In(Space)
W  == In(Word)

\* words of the vocabulary of the forms uint\d*, int\d* and bytes\d*
UintWords  == {"uint256"}
IntWords   == {}
BytesWords == {}

VisibilityAlt3 == Alt(<<Lit("public"), Lit("private"), Lit("internal")>>)
VisibilityAlt4 == Alt(<<Lit("public"), Lit("private"), Lit("internal"), Lit("external")>>)

\* /pragma\s+solidity\s+([^;]+);/
PragmaRe ==
    Cat(<<Lit("pragma"), Plus(Ws), Lit("solidity"), Plus(Ws),
          Cap(1, Plus(NotIn({";"}))), Lit(";")>>)

\* /import\s+["']([^"']+)["']/g
ImportRe ==
    Cat(<<Lit("import"), Plus(Ws), In({"\"", "'"}),
          Cap(1, Plus(NotIn({"\"", "'"}))), In({"\"", "'"})>>)

\* /(?:^|\n)\s*(contract|interface|library)\s+(\w+)(?:\s+is\s+([\w\s,]+))?\s*\{/gm
ContractRe ==
    Cat(<<Alt(<<Bol, Lit("\n")>>), Star(Ws),
          Cap(1, Alt(<<Lit("contract"), Lit("interface"), Lit("library")>>)),
          Plus(Ws), Cap(2, Plus(W)),
          Opt(Cat(<<Plus(Ws), Lit("is"), Plus(Ws),
                    Cap(3, Plus(In(Word \cup Space \cup {","})))>>)),
          Star(Ws), Lit("{")>>)

\* /(?:^|\n)\s*((?:mapping|address|uint\d*|int\d*|bool|bytes\d*|string|[\w.]+)(?:\[\])?)\s+
\*   (?:public\s+|private\s+|internal\s+|constant\s+|immutable\s+)*(\w+)\s*[;=]/gm
VarRe ==
    Cat(<<Alt(<<Bol, Lit("\n")>>), Star(Ws),
          Cap(1, Cat(<<Alt(<<Lit("mapping"), Lit("address"), In(UintWords),
                             In(IntWords), Lit("bool"), In(BytesWords),
                             Lit("string"), Plus(In(Word \cup {"."}))>>),
                       Opt(Cat(<<Lit("["), Lit("]")>>))>>)),
          Plus(Ws),
          Star(Alt(<<Cat(<<Lit("public"), Plus(Ws)>>),
                     Cat(<<Lit("private"), Plus(Ws)>>),
                     Cat(<<Lit("internal"), Plus(Ws)>>),
                     Cat(<<Lit("constant"), Plus(Ws)>>),
                     Cat(<<Lit("immutable"), Plus(Ws)>>)>>)),
          Cap(2, Plus(W)), Star(Ws), In({";", "="})>>)

\* /function\s+(\w+)\s*\(([^)]*)\)\s*(?:public|private|internal|external)?[^{]*/gm
FnRe ==
    Cat(<<Lit("function"), Plus(Ws), Cap(1, Plus(W)), Star(Ws), Lit("("),
          Cap(2, Star(NotIn({")"}))), Lit(")"), Star(Ws),
          Opt(VisibilityAlt4), Star(NotIn({"{"}))>>)

\* /\b(public|private|internal|external)\b/
FnVisRe == Cat(<<WordB, Cap(1, VisibilityAlt4), WordB>>)

\* /\b(pure|view|payable)\b/
FnMutRe == Cat(<<WordB, Cap(1, Alt(<<Lit("pure"), Lit("view"), Lit("payable")>>)), WordB>>)

\* /event\s+(\w+)\s*\(([^)]*)\)/gm
EventRe ==
    Cat(<<Lit("event"), Plus(Ws), Cap(1, Plus(W)), Star(Ws), Lit("("),
          Cap(2, Star(NotIn({")"}))), Lit(")")>>)

\* /constructor\s*\(([^)]*)\)/
CtorRe ==
    Cat(<<Lit("constructor"), Star(Ws), Lit("("),
          Cap(1, Star(NotIn({")"}))), Lit(")")>>)

\* The pattern text of a type name inside new RegExp(...): a word stands for
\* itself, "." for any one character but a line break, and "[" "]" for the
\* empty class, which matches nothing.
RECURSIVE TypeNamePattern(_)
TypeNamePattern(ty) ==
    IF Len(ty) = 0 THEN <<>>
    ELSE IF ty[1] = "." THEN <<In((Space \cup (Punct \ {"//"})) \ {"\n"})>>
                               \o TypeNamePattern(Tail(ty))
    ELSE IF ty[1] = "[" /\ Len(ty) >= 2 /\ ty[2] = "]"
         THEN <<In({})>> \o TypeNamePattern(Tail(Tail(ty)))
    ELSE <<Lit(ty[1])>> \o TypeNamePattern(Tail(ty))

\* new RegExp(`${v[1]}[^;]*\\b(public|private|internal)\\b`)
VarVisRe(ty) ==
    Cat(TypeNamePattern(ty)
          \o <<Star(NotIn({";"})), WordB, Cap(1, VisibilityAlt3), WordB>>)

\* ------------------------------------------------------------------------
\* regexFallbackParser
\* ------------------------------------------------------------------------
\* Array.prototype.includes on an array of strings
Has(ts, x) == \E j \in 1..Len(ts) : ts[j] = x

\* the brace-counting loop run from i up to hi: i and depth after
\* `while (i < hi && depth > 0) { ...; i++; }`, the stretch being halved so
\* that the run is no deeper than its logarithm
RECURSIVE ScanRange(_, _, _, _)
ScanRange(source, i, hi, depth) ==
    IF ~(i < hi /\ depth > 0) THEN [i |-> i, depth |-> depth]
    ELSE IF hi = i + 1
    THEN [i |-> i + 1,
          depth |-> IF source[i + 1] = "{" THEN depth + 1
                    ELSE IF source[i + 1] = "}" THEN depth - 1 ELSE depth]
    ELSE LET mid  == (i + hi) \div 2
             left == ScanRange(source, i, mid, depth)
         IN  IF left.depth > 0 THEN ScanRange(source, mid, hi, left.depth) ELSE left

\* the brace-counting loop: i after `while (i < source.length && depth > 0)`
ScanBraces(source, i, depth) == ScanRange(source, i, Len(source), depth).i

\* the body of the declaration matched by `match`
BodyOf(source, match) ==
    LET startIdx == match.end
        i        == ScanBraces(source, startIdx, 1)
    IN  Slice(source, startIdx, i - 1)

\* one parameter token p (trimmed, non-empty) of a function or constructor
ParamOf(p) ==
    LET parts == SplitWs(p)
    IN  [typeName |-> OrElse(parts[1], Str("unknown")),
         name     |-> OrElse(parts[Len(parts)], <<>>)]

\* one parameter token p of an event
EventParamOf(p) ==
    LET parts == SplitWs(p)
    IN  [typeName |-> OrElse(parts[1], Str("unknown")),
         name     |-> OrElse(parts[Len(parts)], <<>>),
         indexed  |-> Includes(p, Str("indexed"))]

\* list.split(",").map((p) => p.trim()).filter(Boolean)
ParamTokens(list) == NonEmpty(MapSeq(SplitOn(list, ","), Trim))

StateVariablesOf(body) ==
    LET varMatches == MatchAll(VarRe, body, 0)
        One(v) ==
          LET ty  == Group(body, v, 1)
              vis == Match(VarVisRe(ty), body)
          IN  [name       |-> Group(body, v, 2),
               typeName   |-> ty,
               visibility |-> IF vis.found THEN Group(body, vis, 1) ELSE Str("internal"),
               constant   |-> Includes(body, ty \o <<" ", "constant">>)
                                \/ Includes(body, <<"constant", " ">> \o ty),
               immutable  |-> Includes(body, ty \o <<" ", "immutable">>)
                                \/ Includes(body, <<"immutable", " ">> \o ty)]
    IN  MapSeq(varMatches, One)

FunctionsOf(body) ==
    LET fnMatches == MatchAll(FnRe, body, 0)
        One(f) ==
          LET f0  == Whole(body, f)
              vis == Match(FnVisRe, f0)
              mut == Match(FnMutRe, f0)
          IN  [name            |-> Group(body, f, 1),
               visibility      |-> IF vis.found THEN Group(f0, vis, 1) ELSE Str("public"),
               stateMutability |-> IF mut.found THEN Group(f0, mut, 1) ELSE Str("nonpayable"),
               parameters      |-> MapSeq(ParamTokens(Group(body, f, 2)), ParamOf),
               returnParameters |-> <<>>,
               isConstructor   |-> FALSE,
               isModifier      |-> FALSE]
    IN  MapSeq(fnMatches, One)

EventsOf(body) ==
    LET evtMatches == MatchAll(EventRe, body, 0)
        One(e) == [name       |-> Group(body, e, 1),
                   parameters |-> MapSeq(ParamTokens(Group(body, e, 2)), EventParamOf)]
    IN  MapSeq(evtMatches, One)

\* functions after `if (ctorMatch) functions.unshift({...})`
WithConstructor(body, functions) ==
    LET ctorMatch == Match(CtorRe, body)
    IN  IF ctorMatch.found
        THEN <<[name            |-> Str("constructor"),
                visibility      |-> Str("public"),
                stateMutability |-> Str("nonpayable"),
                parameters      |-> MapSeq(ParamTokens(Group(body, ctorMatch, 1)), ParamOf),
                returnParameters |-> <<>>,
                isConstructor   |-> TRUE,
                isModifier      |-> FALSE]>> \o functions
        ELSE functions

ContractMatches(source) == MatchAll(ContractRe, source, 0)

\* the ContractDef pushed for one match of the declaration pattern
ContractOf(source, match) ==
    LET body == BodyOf(source, match)
    IN  [name           |-> Group(source, match, 2),
         kind           |-> Group(source, match, 1),
         baseContracts  |-> IF HasGroup(match, 3)
                            THEN NonEmpty(MapSeq(SplitOn(Group(source, match, 3), ","), Trim))
                            ELSE <<>>,
         stateVariables |-> StateVariablesOf(body),
         functions      |-> WithConstructor(body, FunctionsOf(body)),
         events         |-> EventsOf(body)]

\* ------------------------------------------------------------------------
\* buildResult
\* ------------------------------------------------------------------------
\* allFns.includes("transfer") && allFns.includes("approve") &&
\* allFns.includes("transferfrom")
isERC20Of_WithoutTransferFrom(allFns) ==
    Has(allFns, Str("transfer")) /\ Has(allFns, Str("approve"))
isERC20Of(allFns) ==
    Has(allFns, Str("transfer")) /\ Has(allFns, Str("approve"))
        /\ Has(allFns, Str("transferfrom"))

\* totalFns > 15 || totalVars > 10 ? "high" : totalFns > 6 ? "medium" : "low"
complexityOf_FromFifteen(totalFns, totalVars) ==
    IF totalFns >= 15 \/ totalVars > 10 THEN "high"
    ELSE IF totalFns > 6 THEN "medium" ELSE "low"
complexityOf_NeverLow(totalFns, totalVars) ==
    IF totalFns > 15 \/ totalVars > 10 THEN "high" ELSE "medium"
complexityOf(totalFns, totalVars) ==
    IF totalFns > 15 \/ totalVars > 10 THEN "high"
    ELSE IF totalFns > 6 THEN "medium" ELSE "low"

buildResult(contracts, pragmaVersion, imports, source, errors) ==
    LET allBases == Flatten(MapSeq(contracts, LAMBDA c : MapSeq(c.baseContracts, Lower)))
        allFns   == Flatten(MapSeq(contracts,
                                   LAMBDA c : MapSeq(c.functions, LAMBDA f : Lower(f.name))))
        srcLower == Lower(source)
        totalFns  == SumSeq(MapSeq(contracts, LAMBDA c : Len(c.functions)))
        totalVars == SumSeq(MapSeq(contracts, LAMBDA c : Len(c.stateVariables)))
    IN  [contracts     |-> contracts,
         pragmaVersion |-> pragmaVersion,
         imports       |-> imports,
         isERC20   |-> isERC20Of(allFns),
         isERC721  |-> Has(allFns, Str("safetransferfrom"))
                         \/ Includes(srcLower, Str("erc721")),
         hasOwnable |-> (\E j \in 1..Len(allBases) : Includes(allBases[j], Str("ownable")))
                         \/ Includes(srcLower, Str("ownable")),
         hasAccessControl |-> Includes(srcLower, Str("accesscontrol"))
                                \/ Includes(srcLower, Str("roles")),
         hasMappings |-> Includes(source, <<"mapping", "(">>),
         hasEvents   |-> \E j \in 1..Len(contracts) : Len(contracts[j].events) > 0,
         complexity  |-> complexityOf(totalFns, totalVars),
         lineCount   |-> Len(SplitOn(source, "\n")),
         errors      |-> errors]

regexFallbackParser(source) ==
    LET errors        == <<>>
        pragmaMatch   == Match(PragmaRe, source)
        pragmaVersion == IF pragmaMatch.found THEN Trim(Group(source, pragmaMatch, 1))
                         ELSE Str("unknown")
        importMatches == MatchAll(ImportRe, source, 0)
        imports       == MapSeq(importMatches, LAMBDA m : Group(source, m, 1))
        contracts     == MapSeq(ContractMatches(source), LAMBDA m : ContractOf(source, m))
    IN  buildResult(contracts, pragmaVersion, imports, source, errors)

\* ------------------------------------------------------------------------
\* The AST path of parseSolidity
\* ------------------------------------------------------------------------
\* A missing node or field (null / undefined) and the falsy string "".
NullNode == [type |-> "null"]
Elementary(w) == [type |-> "ElementaryTypeName", name |-> Str(w)]

RECURSIVE getTypeName(_)
getTypeName(typeNode) ==
    IF typeNode.type = "null" THEN Str("unknown")
    ELSE IF typeNode.type = "ElementaryTypeName" THEN typeNode.name
    ELSE IF typeNode.type = "UserDefinedTypeName" THEN typeNode.namePath
    ELSE IF typeNode.type = "ArrayTypeName"
         THEN getTypeName(typeNode.baseTypeName) \o <<"[", "]">>
    ELSE IF typeNode.type = "Mapping"
         THEN <<"mapping", "(">> \o getTypeName(typeNode.keyType)
                \o <<" ", "=", ">", " ">> \o getTypeName(typeNode.valueType) \o <<")">>
    ELSE OrElse(typeNode.name, Str("unknown"))

getParams(params) ==
    MapSeq(params, LAMBDA q : [name |-> OrElse(q.name, <<>>),
                               typeName |-> getTypeName(q.typeName)])

SubNodesOfType(c, ty) == SelectSeq(c.subNodes, LAMBDA node : node.type = ty)

\* the contracts.push({...}) of one ContractDefinition node c; the three
\* arrays are filled in the order of c.subNodes
AstContractOf(c) ==
    [name           |-> c.name,
     kind           |-> OrElse(c.kind, Str("contract")),
     baseContracts  |-> MapSeq(c.baseContracts, LAMBDA b : OrElse(b.baseName.namePath, <<>>)),
     stateVariables |->
        Flatten(MapSeq(SubNodesOfType(c, "StateVariableDeclaration"),
          LAMBDA node : MapSeq(node.variables,
            LAMBDA v : [name       |-> v.name,
                        typeName   |-> getTypeName(v.typeName),
                        visibility |-> OrElse(v.visibility, Str("internal")),
                        constant   |-> v.isDeclaredConst,
                        immutable  |-> v.isImmutable]))),
     functions |->
        MapSeq(SubNodesOfType(c, "FunctionDefinition"),
          LAMBDA node :
            [name            |-> OrElse(node.name, IF node.isConstructor
                                                   THEN Str("constructor")
                                                   ELSE Str("fallback")),
             visibility      |-> OrElse(node.visibility, Str("public")),
             stateMutability |-> OrElse(node.stateMutability, Str("nonpayable")),
             parameters      |-> getParams(node.parameters),
             returnParameters |-> getParams(node.returnParameters),
             isConstructor   |-> node.isConstructor,
             isModifier      |-> node.type = "ModifierDefinition"]),
     events |->
        MapSeq(SubNodesOfType(c, "EventDefinition"),
          LAMBDA node :
            [name       |-> node.name,
             parameters |-> MapSeq(node.parameters,
                LAMBDA q : [name     |-> OrElse(q.name, <<>>),
                            typeName |-> getTypeName(q.typeName),
                            indexed  |-> q.isIndexed])])]

ChildrenOfType(ast, ty) == SelectSeq(ast.children, LAMBDA n : n.type = ty)

\* parseSolidity.  parser is window.__solidityParser: absent (null), or
\* present with the outcome of parser.parse(source): it throws, or returns ast.
parseSolidity(source, parser) ==
    IF ~parser.present THEN regexFallbackParser(source)
    ELSE IF parser.throws
    THEN LET errors == <<Str("AST parse error")>>   \* pushed, then left behind
         IN  regexFallbackParser(source)
    ELSE LET errors  == <<>>
             ast     == parser.ast
             pragmas == ChildrenOfType(ast, "PragmaDirective")
             pragmaVersion == IF Len(pragmas) > 0
                              THEN OrElse(pragmas[1].value, Str("unknown"))
                              ELSE Str("unknown")
             imports   == MapSeq(ChildrenOfType(ast, "ImportDirective"), LAMBDA n : n.path)
             contracts == MapSeq(ChildrenOfType(ast, "ContractDefinition"), AstContractOf)
         IN  buildResult(contracts, pragmaVersion, imports, source, errors)

\* ------------------------------------------------------------------------
\* applyMappingRules (the rule texts that no condition reads are left out:
\* evmDetail, solanaConcept, solanaDetail, rationale, anchor_snippet, ...)
\* ------------------------------------------------------------------------
OwnableConcept       == <<"address", " ", "owner", " ", "(", "Ownable", ")">>
MappingConcept       == <<"mapping", "(", "K", " ", "=", ">", " ", "V", ")">>
AccessControlConcept == <<"AccessControl", " ", "(", "roles", ")">>
Erc20Concept         == <<"ERC-20", " ", "token">>
Erc721Concept        == <<"ERC-721", " ", "NFT">>
ConstructorConcept   == <<"constructor", "(", ")">>

STATIC_RULES ==
    << [category |-> "state",   evmConcept |-> <<"contract", " ", "storage">>],
       [category |-> "storage", evmConcept |-> MappingConcept],
       [category |-> "access",  evmConcept |-> OwnableConcept],
       [category |-> "access",  evmConcept |-> AccessControlConcept],
       [category |-> "token",   evmConcept |-> Erc20Concept],
       [category |-> "token",   evmConcept |-> Erc721Concept],
       [category |-> "event",   evmConcept |-> <<"Solidity", " ", "event", " ", "/", " ", "emit">>],
       [category |-> "pattern", evmConcept |-> ConstructorConcept],
       [category |-> "pattern", evmConcept |-> <<"require", "(", "condition", ",", " ", "\"", "msg", "\"", ")">>],
       [category |-> "pattern", evmConcept |-> <<"block", ".", "timestamp">>],
       [category |-> "pattern", evmConcept |-> <<"ReentrancyGuard", " ", "/", " ", "nonReentrant">>],
       [category |-> "pattern", evmConcept |-> <<"payable", " ", "/", " ", "msg", ".", "value">>] >>

\* STATIC_RULES.find((r) => r.evmConcept === concept)
StaticRule(concept) ==
    STATIC_RULES[CHOOSE j \in 1..Len(STATIC_RULES) :
                    /\ STATIC_RULES[j].evmConcept = concept
                    /\ \A k \in 1..(j - 1) : STATIC_RULES[k].evmConcept # concept]

\* the rule pushed for one state variable v of the main contract
VariableRule(v) ==
    IF StartsWith(v.typeName, Str("mapping"))
    THEN [category   |-> StaticRule(MappingConcept).category,
          evmConcept |-> <<"mapping", ":", " ">> \o v.name]
    ELSE IF Includes(Lower(v.name), Str("owner")) /\ v.typeName = Str("address")
    THEN StaticRule(OwnableConcept)
    ELSE [category |-> "state", evmConcept |-> v.typeName \o <<" ">> \o v.name]

applyMappingRules(parsed) ==
    LET contracts == parsed.contracts
        ofKind    == SelectSeq(contracts, LAMBDA c : c.kind = Str("contract"))
        hasMain   == Len(contracts) > 0
        mainContract == IF Len(ofKind) > 0 THEN ofKind[1] ELSE contracts[1]
        publicFns ==
          SelectSeq(mainContract.functions,
                    LAMBDA f : ~f.isConstructor
                               /\ (f.visibility = Str("public") \/ f.visibility = Str("external")))
        rules4 ==
          IF ~hasMain THEN <<>>
          ELSE <<[category   |-> "state",
                  evmConcept |-> <<"contract", " ">> \o mainContract.name \o <<" ", "storage">>]>>
               \o MapSeq(mainContract.stateVariables, VariableRule)
               \o (IF Len(publicFns) > 0
                   THEN <<[category   |-> StaticRule(ConstructorConcept).category,
                           evmConcept |-> <<ToString(Len(publicFns)), " ", "public", "/",
                                            "external", " ", "functions">>]>>
                   ELSE <<>>)
               \o (IF Len(mainContract.events) > 0
                   THEN <<[category   |-> "event",   \* of STATIC_RULES.find((r) => r.category === "event")
                           evmConcept |-> <<ToString(Len(mainContract.events)), " ", "events">>]>>
                   ELSE <<>>)
        rules5 ==
          rules4 \o (IF parsed.isERC20 THEN <<StaticRule(Erc20Concept)>> ELSE <<>>)
                 \o (IF parsed.isERC721 THEN <<StaticRule(Erc721Concept)>> ELSE <<>>)
        rules6a ==
          rules5 \o (IF parsed.hasOwnable
                        /\ ~\E j \in 1..Len(rules5) : Includes(rules5[j].evmConcept, Str("owner"))
                     THEN <<StaticRule(OwnableConcept)>> ELSE <<>>)
        rules6 ==
          rules6a \o (IF parsed.hasAccessControl THEN <<StaticRule(AccessControlConcept)>> ELSE <<>>)
        rules7 ==
          rules6 \o SelectSeq(STATIC_RULES,
                      LAMBDA r : r.category = "pattern"
                                 /\ ~\E j \in 1..Len(rules6) : rules6[j].evmConcept = r.evmConcept)
    IN  [j \in 1..Len(rules7) |->
           [id |-> j, category |-> rules7[j].category, evmConcept |-> rules7[j].evmConcept]]

\* ------------------------------------------------------------------------
\* estimateCosts: the count of mapping variables
\* ------------------------------------------------------------------------
\* parsed.contracts.flatMap(c => c.stateVariables)
\*       .filter(v => v.typeName.startsWith("mapping")).length
mappingCount(parsed) ==
    Len(SelectSeq(Flatten(MapSeq(parsed.contracts, LAMBDA c : c.stateVariables)),
                  LAMBDA v : StartsWith(v.typeName, Str("mapping"))))

\* ------------------------------------------------------------------------
\* generateAnchorSkeleton (src/src/utils/anchorGenerator.ts)
\* ------------------------------------------------------------------------
\* The generated files are kept as the list of the items their templates
\* write (handlers, structs, error codes), not as their text.

\* s.replace(/([A-Z])/g, "_$1").toLowerCase().replace(/^_/, ""), word by
\* word (the names of the model have capitals in their first word only)
SnakeLex(w) ==
    CASE w = "transferFrom" -> "transfer_from" [] w = "Approve" -> "approve"
      [] w = "A" -> "a" [] w = "B" -> "b" [] w = "C" -> "c" [] w = "D" -> "d"
      [] w = "I" -> "i" [] w = "M" -> "m" [] w = "Sent" -> "sent"
      [] w = "Ownable" -> "ownable" [] w = "ERC721" -> "e_r_c721"
      [] w = "AccessControl" -> "access_control"
      [] OTHER -> w
toSnakeCase(t) == [j \in 1..Len(t) |-> SnakeLex(t[j])]

\* s.charAt(0).toUpperCase() + s.slice(1)
CapLex(w) ==
    CASE w = "transfer" -> "Transfer" [] w = "approve" -> "Approve"
      [] w = "transferFrom" -> "TransferFrom" [] w = "foo" -> "Foo"
      [] w = "bar" -> "Bar" [] w = "baz" -> "Baz" [] w = "f" -> "F"
      [] w = "constructor" -> "Constructor" [] w = "fallback" -> "Fallback"
      [] w = "balances" -> "Balances" [] w = "total" -> "Total"
      [] w = "owner" -> "Owner" [] w = "a" -> "A" [] w = "m" -> "M" [] w = "i" -> "I"
      [] OTHER -> w
capitalize(t) == IF Len(t) = 0 THEN t ELSE <<CapLex(t[1])>> \o Tail(t)

\* Array.prototype.slice(0, n)
Take(ts, n) == SubSeq(ts, 1, IF Len(ts) < n THEN Len(ts) ELSE n)

\* map[t] ?? "Vec<u8>"
solidityTypeToRust(t) ==
    CASE t = Str("address") -> "Pubkey"
      [] t = Str("bool")    -> "bool"
      [] t = Str("string")  -> "String"
      [] t \in {Str("uint256"), Str("uint128"), Str("uint64")} -> "u64"
      [] t = Str("uint32")  -> "u32"
      [] t = Str("uint16")  -> "u16"
      [] t = Str("uint8")   -> "u8"
      [] t \in {Str("int256"), Str("int128"), Str("int64")} -> "i64"
      [] t = Str("int32")   -> "i32"
      [] t = Str("bytes32") -> "[u8; 32]"
      [] OTHER -> "Vec<u8>"

\* the functions both lib.rs and `instructions` are built from
PublicFns(contract) ==
    SelectSeq(contract.functions,
              LAMBDA f : ~f.isConstructor
                         /\ (f.visibility = Str("public") \/ f.visibility = Str("external")))

\* the state struct of the contract and one Entry struct for each mapping
buildAccountStructNames(contract) ==
    <<contract.name \o <<"State">>>>
      \o MapSeq(SelectSeq(contract.stateVariables,
                          LAMBDA v : StartsWith(v.typeName, Str("mapping"))),
                LAMBDA v : capitalize(toSnakeCase(v.name)) \o <<"Entry">>)

\* the fields of the state struct, then the names of the structs written
buildAccountStructs(contract, parsed) ==
    [fields  |-> MapSeq(SelectSeq(contract.stateVariables,
                                  LAMBDA v : ~StartsWith(v.typeName, Str("mapping"))),
                        LAMBDA v : [name |-> toSnakeCase(v.name),
                                    type |-> solidityTypeToRust(v.typeName)]),
     structs |-> buildAccountStructNames(contract)]

\* `pub struct Initialize<'info>`, then `pub struct ${capitalize(f.name)}<'info>`
\* for the first four functions
buildContextStructs(contract, fns) ==
    <<Str("Initialize")>>
      \o MapSeq(Take(SelectSeq(fns, LAMBDA f : f.name # Str("constructor")), 4),
                LAMBDA f : capitalize(f.name))

\* `pub fn initialize(ctx: Context<Initialize>, ...)`, then
\* `pub fn ${toSnakeCase(f.name)}(ctx: Context<${capitalize(f.name)}>, ...)`
\* for the first eight functions
buildInstructionHandlers(fns, contractName) ==
    <<[name |-> Str("initialize"), ctx |-> Str("Initialize"), params |-> <<>>]>>
      \o MapSeq(Take(SelectSeq(fns, LAMBDA f : ~f.isConstructor), 8),
                LAMBDA f : [name   |-> toSnakeCase(f.name),
                            ctx    |-> capitalize(f.name),
                            params |-> MapSeq(f.parameters,
                               LAMBDA q : [name |-> <<"_">> \o toSnakeCase(OrElse(q.name, Str("param"))),
                                           type |-> solidityTypeToRust(q.typeName)])])

buildErrorCodes(contract, parsed) ==
    <<"Unauthorized", "InvalidAmount", "InsufficientFunds">>
      \o (IF parsed.isERC20 THEN <<"TransferFailed">> ELSE <<>>)
      \o (IF parsed.hasAccessControl THEN <<"MissingRole">> ELSE <<>>)

buildLibRs(contract, parsed, programName) ==
    LET publicFns == PublicFns(contract)
    IN  [usesSplToken        |-> parsed.isERC20,
         module              |-> programName,
         instructionHandlers |-> buildInstructionHandlers(publicFns, contract.name),
         accountStructs      |-> buildAccountStructs(contract, parsed),
         contextStructs      |-> buildContextStructs(contract, publicFns),
         errorCodes          |-> buildErrorCodes(contract, parsed)]

\* the test file: one `it("Calls ...")` for the first three functions
buildTests(contract, programName) ==
    [program |-> programName,
     calls   |-> MapSeq(Take(PublicFns(contract), 3), LAMBDA f : toSnakeCase(f.name))]

generateAnchorSkeleton_Unnamed(parsed) ==
    [programName |-> Str("program"), files |-> <<>>, instructions |-> <<>>,
     accountStructs |-> <<>>, warnings |-> <<>>]
generateAnchorSkeleton(parsed) ==
    LET ofKind       == SelectSeq(parsed.contracts, LAMBDA c : c.kind = Str("contract"))
        mainContract == IF Len(ofKind) > 0 THEN ofKind[1] ELSE parsed.contracts[1]
        programName  == toSnakeCase(mainContract.name)
    IN  IF Len(parsed.contracts) = 0
        THEN [programName |-> Str("migration_example"), files |-> <<>>,
              instructions |-> <<>>, accountStructs |-> <<>>,
              warnings |-> <<"No contract found.">>]
        ELSE [programName    |-> programName,
              instructions   |-> MapSeq(PublicFns(mainContract), LAMBDA f : toSnakeCase(f.name)),
              accountStructs |-> buildAccountStructNames(mainContract),
              warnings       |->
                 (IF parsed.isERC20 THEN <<"ERC-20 detected">> ELSE <<>>)
                   \o (IF parsed.isERC721 THEN <<"ERC-721 detected">> ELSE <<>>)
                   \o (IF parsed.complexity = "high" THEN <<"High complexity contract">>
                       ELSE <<>>),
              files |->
                 <<[filename |-> <<"programs/">> \o programName \o <<"/src/lib.rs">>,
                    language |-> "rust",
                    content  |-> buildLibRs(mainContract, parsed, programName)],
                   [filename |-> <<"Anchor.toml">>, language |-> "toml",
                    content  |-> [program |-> programName]],
                   [filename |-> <<"programs/">> \o programName \o <<"/Cargo.toml">>,
                    language |-> "toml",
                    content  |-> [name |-> programName]],
                   [filename |-> <<"tests/">> \o programName \o <<".ts">>,
                    language |-> "typescript",
                    content  |-> buildTests(mainContract, programName)]>>]

\* ------------------------------------------------------------------------
\* estimateCosts and buildChecklist
\* ------------------------------------------------------------------------
\* The whole-number part of the estimate: the counts, the bytecode size and
\* the gas figures.  The prices derived from them in floating point are
\* left out.
estimateCosts_Uncapped(src, parsed) ==
    LET lines         == Len(SplitOn(src, "\n"))
        fnCount       == SumSeq(MapSeq(parsed.contracts, LAMBDA c : Len(c.functions)))
        stateVarCount == SumSeq(MapSeq(parsed.contracts, LAMBDA c : Len(c.stateVariables)))
        deployGas     == 21000 + lines * 200 * 200 + fnCount * 15000 + stateVarCount * 5000
        perTxGas      == 21000 + 30000 + fnCount * 2000
    IN  [ethereum |-> [chain |-> "Ethereum", deploymentGas |-> deployGas,
                       perTxGas |-> perTxGas],
         solana   |-> [chain |-> "Solana", computeUnits |-> fnCount * 5000,
                       accountBytes |-> stateVarCount * 32 + 64,
                       pdaAccounts |-> mappingCount(parsed)]]

estimateCosts(src, parsed) ==
    LET lines         == Len(SplitOn(src, "\n"))
        fnCount       == SumSeq(MapSeq(parsed.contracts, LAMBDA c : Len(c.functions)))
        stateVarCount == SumSeq(MapSeq(parsed.contracts, LAMBDA c : Len(c.stateVariables)))
        estimatedBytecode == IF lines * 200 < 24576 THEN lines * 200 ELSE 24576
        deployGas     == 21000 + estimatedBytecode * 200 + fnCount * 15000
                           + stateVarCount * 5000
        perTxGas      == 21000 + 30000 + fnCount * 2000
    IN  [ethereum |-> [chain |-> "Ethereum", deploymentGas |-> deployGas,
                       perTxGas |-> perTxGas],
         solana   |-> [chain |-> "Solana", computeUnits |-> fnCount * 5000,
                       accountBytes |-> stateVarCount * 32 + 64,
                       pdaAccounts |-> mappingCount(parsed)]]

\* The items buildChecklist pushes whatever it is given, section by section
\* (in the texts "->" stands for the arrow and "-" for the dash of the
\* source, and code quotes are left out).
AnalysisItems ==
    << [section |-> "Analysis", priority |-> "critical", automated |-> TRUE,
            text |-> <<"Parse Solidity source code">>],
       [section |-> "Analysis", priority |-> "high", automated |-> FALSE,
            text |-> <<"Review all state variable -> Solana account field mappings">>],
       [section |-> "Analysis", priority |-> "high", automated |-> FALSE,
            text |-> <<"Identify all external contract calls / CPIs required">>],
       [section |-> "Analysis", priority |-> "critical", automated |-> FALSE,
            text |-> <<"Document business logic that must be preserved exactly">>] >>

ProgramDevItems ==
    << [section |-> "Program Dev", priority |-> "critical", automated |-> FALSE,
            text |-> <<"Implement all instruction handlers (replace TODO blocks in lib.rs)">>],
       [section |-> "Program Dev", priority |-> "critical", automated |-> FALSE,
            text |-> <<"Verify account space (LEN) for every #[account] struct">>],
       [section |-> "Program Dev", priority |-> "high", automated |-> FALSE,
            text |-> <<"Add typed error codes for all business rule violations">>],
       [section |-> "Program Dev", priority |-> "medium", automated |-> FALSE,
            text |-> <<"Implement Anchor #[event] + emit!() for all Solidity events">>],
       [section |-> "Program Dev", priority |-> "critical", automated |-> FALSE,
            text |-> <<"anchor build - zero compiler errors or warnings">>] >>

Erc20Items ==
    << [section |-> "Program Dev", priority |-> "critical", automated |-> FALSE,
            text |-> <<"Deploy SPL Token mint (match ERC-20 decimals)">>],
       [section |-> "Program Dev", priority |-> "high", automated |-> FALSE,
            text |-> <<"Integrate anchor_spl::token for transfer / mint / burn">>],
       [section |-> "Program Dev", priority |-> "high", automated |-> FALSE,
            text |-> <<"Test Associated Token Account (ATA) creation flow">>] >>

Erc721Items ==
    << [section |-> "Program Dev", priority |-> "high", automated |-> FALSE,
            text |-> <<"Integrate Metaplex Token Metadata for NFT metadata URI">>],
       [section |-> "Program Dev", priority |-> "high", automated |-> FALSE,
            text |-> <<"Implement mint-per-NFT with supply=1, decimals=0">>] >>

TestingItems ==
    << [section |-> "Testing", priority |-> "critical", automated |-> FALSE,
            text |-> <<"Write unit test for initialize instruction">>],
       [section |-> "Testing", priority |-> "critical", automated |-> FALSE,
            text |-> <<"Write tests for all public instruction handlers">>],
       [section |-> "Testing", priority |-> "high", automated |-> FALSE,
            text |-> <<"Test PDA derivation and account creation/closure">>],
       [section |-> "Testing", priority |-> "high", automated |-> FALSE,
            text |-> <<"Test unauthorized access rejection">>],
       [section |-> "Testing", priority |-> "critical", automated |-> FALSE,
            text |-> <<"anchor test - all tests passing on localnet">>],
       [section |-> "Testing", priority |-> "medium", automated |-> FALSE,
            text |-> <<"Use LiteSVM or Mollusk for fast in-process unit tests">>],
       [section |-> "Testing", priority |-> "high", automated |-> FALSE,
            text |-> <<"Integration test against devnet with real token accounts">>] >>

SecurityItems ==
    << [section |-> "Security", priority |-> "critical", automated |-> FALSE,
            text |-> <<"Verify all account owner checks (program owns PDAs)">>],
       [section |-> "Security", priority |-> "critical", automated |-> FALSE,
            text |-> <<"Validate all account constraints in Context structs">>],
       [section |-> "Security", priority |-> "critical", automated |-> FALSE,
            text |-> <<"Ensure no account is writable that should be read-only">>],
       [section |-> "Security", priority |-> "critical", automated |-> FALSE,
            text |-> <<"Check for integer overflow - use checked_add, checked_mul">>],
       [section |-> "Security", priority |-> "critical", automated |-> FALSE,
            text |-> <<"Signer spoofing prevention - all privileged callers use Signer<'info>">>],
       [section |-> "Security", priority |-> "high", automated |-> FALSE,
            text |-> <<"Audit CPI flows - verify callee program IDs match expected">>],
       [section |-> "Security", priority |-> "medium", automated |-> FALSE,
            text |-> <<"Review compute unit usage - add ComputeBudget instruction if >200k CUs">>],
       [section |-> "Security", priority |-> "medium", automated |-> FALSE,
            text |-> <<"Run anchor idl --out idl.json and review for unintended exposure">>],
       [section |-> "Security", priority |-> "high", automated |-> FALSE,
            text |-> <<"Request peer code review or professional audit before mainnet">>] >>

TokenMigrationItems ==
    << [section |-> "Token Migration", priority |-> "critical", automated |-> FALSE,
            text |-> <<"Install @wormhole-foundation/sdk">>],
       [section |-> "Token Migration", priority |-> "critical", automated |-> FALSE,
            text |-> <<"Initialize Wormhole SDK: wormhole('Testnet', [evm, solana])">>],
       [section |-> "Token Migration", priority |-> "critical", automated |-> FALSE,
            text |-> <<"Snapshot all EVM token holders and balances">>],
       [section |-> "Token Migration", priority |-> "critical", automated |-> FALSE,
            text |-> <<"Verify total supply matches sum of all holder balances">>],
       [section |-> "Token Migration", priority |-> "critical", automated |-> FALSE,
            text |-> <<"Collect EVM address -> Solana wallet mapping from holders">>],
       [section |-> "Token Migration", priority |-> "high", automated |-> FALSE,
            text |-> <<"Deploy and test NTT Manager + Transceiver on testnet (Sepolia -> devnet)">>],
       [section |-> "Token Migration", priority |-> "high", automated |-> FALSE,
            text |-> <<"Run end-to-end NTT transfer test using TypeScript SDK">>],
       [section |-> "Token Migration", priority |-> "high", automated |-> FALSE,
            text |-> <<"Apply to Sunrise for liquidity routing (sunrisedefi.com)">>],
       [section |-> "Token Migration", priority |-> "critical", automated |-> FALSE,
            text |-> <<"Distribute SPL tokens to holders on mainnet">>],
       [section |-> "Token Migration", priority |-> "medium", automated |-> FALSE,
            text |-> <<"Revoke mint authority after full distribution (fixed supply)">>],
       [section |-> "Token Migration", priority |-> "medium", automated |-> FALSE,
            text |-> <<"Deploy liquidity pool on Orca or Raydium">>] >>

DeploymentItems ==
    << [section |-> "Deployment", priority |-> "critical", automated |-> FALSE,
            text |-> <<"anchor deploy to devnet - verify program ID matches Anchor.toml">>],
       [section |-> "Deployment", priority |-> "critical", automated |-> FALSE,
            text |-> <<"Run full test suite against devnet deployment">>],
       [section |-> "Deployment", priority |-> "high", automated |-> FALSE,
            text |-> <<"Verify program upgrade authority wallet is secure">>],
       [section |-> "Deployment", priority |-> "critical", automated |-> FALSE,
            text |-> <<"anchor deploy to mainnet-beta">>],
       [section |-> "Deployment", priority |-> "high", automated |-> FALSE,
            text |-> <<"Verify on Solana Explorer (explorer.solana.com)">>],
       [section |-> "Deployment", priority |-> "medium", automated |-> FALSE,
            text |-> <<"Publish IDL on-chain: anchor idl init <programId>">>],
       [section |-> "Deployment", priority |-> "critical", automated |-> FALSE,
            text |-> <<"Update frontend / SDK with mainnet program ID">>],
       [section |-> "Deployment", priority |-> "high", automated |-> FALSE,
            text |-> <<"Monitor for errors in first 48 hours using Helius / Shyft alerts">>] >>

buildChecklist(parsed, rules, skel) ==
    LET complexityItem ==
          [section |-> "Analysis",
           priority |-> IF parsed.complexity = "high" THEN "high" ELSE "medium",
           automated |-> TRUE,
           text |-> <<"Contract complexity: ", parsed.complexity, " (",
                      ToString(parsed.lineCount), " lines)">>]
        standardItem ==
          [section |-> "Analysis", priority |-> "critical", automated |-> TRUE,
           text |-> <<"Detected token standard: ",
                      IF parsed.isERC20 THEN "ERC-20"
                      ELSE IF parsed.isERC721 THEN "ERC-721" ELSE "Custom">>]
        pdaItem ==
          [section |-> "Analysis", priority |-> "critical", automated |-> FALSE,
           text |-> <<"Design PDA seed scheme for ", ToString(mappingCount(parsed)),
                      " mapping(s)">>]
        skeletonItem ==
          [section |-> "Program Dev", priority |-> "high", automated |-> skel # [null |-> TRUE],
           text |-> <<"Anchor skeleton generated (lib.rs, Anchor.toml, Cargo.toml, tests)">>]
        instructionItems ==
          IF skel # [null |-> TRUE]
          THEN MapSeq(Take(skel.instructions, 5),
                      LAMBDA inst : [section |-> "Program Dev", priority |-> "critical",
                                     automated |-> FALSE,
                                     text |-> <<"Implement instruction: ">> \o inst])
          ELSE <<>>
        authorityItem ==
          [section |-> "Program Dev", priority |-> "critical", automated |-> FALSE,
           text |-> <<"Implement authority / role checks in all privileged instructions">>]
        items ==
          <<AnalysisItems[1], standardItem>> \o Tail(AnalysisItems) \o <<complexityItem>>
            \o (IF parsed.hasMappings THEN <<pdaItem>> ELSE <<>>)
            \o <<skeletonItem>> \o ProgramDevItems
            \o instructionItems
            \o (IF parsed.isERC20 THEN Erc20Items ELSE <<>>)
            \o (IF parsed.isERC721 THEN Erc721Items ELSE <<>>)
            \o (IF parsed.hasOwnable \/ parsed.hasAccessControl THEN <<authorityItem>> ELSE <<>>)
            \o TestingItems
            \o SecurityItems
            \o (IF parsed.isERC20 \/ parsed.isERC721 THEN TokenMigrationItems ELSE <<>>)
            \o DeploymentItems
    IN  [j \in 1..Len(items) |->
           [id |-> j, section |-> items[j].section, text |-> items[j].text,
            priority |-> items[j].priority, automated |-> items[j].automated]]

\* ------------------------------------------------------------------------
\* Source units: the inputs
\* ------------------------------------------------------------------------
\* A source text is written from a unit: a few declarations, members in the
\* body of the first one, a layout.  The unit stays in the state next to
\* its text, so that properties can compare what was parsed with what was
\* written.
MaxMembers == 2     \* members in the body of a declaration
MaxDecls   == 2     \* declarations in a unit

NoParams == <<>>

\* The members a body is written from: the text, what it declares, and the
\* node a grammar-based parser returns for it.
MemberPool ==
    << \* 1: mapping(address => uint256) public balances;
       [class |-> "var", name |-> Str("balances"),
        text  |-> <<"mapping", "(", "address", " ", "=", ">", " ", "uint256", ")",
                    " ", "public", " ", "balances", ";">>,
        type  |-> <<"mapping", "(", "address", " ", "=", ">", " ", "uint256", ")">>,
        vis   |-> Str("public"), mut |-> <<>>, params |-> NoParams, ended |-> ";", const |-> FALSE,
        node  |-> [type |-> "StateVariableDeclaration",
                   variables |-> <<[name |-> Str("balances"),
                                    typeName |-> [type |-> "Mapping",
                                                  keyType |-> Elementary("address"),
                                                  valueType |-> Elementary("uint256")],
                                    visibility |-> Str("public"),
                                    isDeclaredConst |-> FALSE, isImmutable |-> FALSE]>>]],
       \* 2: uint256 total;
       [class |-> "var", name |-> Str("total"),
        text  |-> <<"uint256", " ", "total", ";">>,
        type  |-> Str("uint256"),
        vis   |-> <<>>, mut |-> <<>>, params |-> NoParams, ended |-> ";", const |-> FALSE,
        node  |-> [type |-> "StateVariableDeclaration",
                   variables |-> <<[name |-> Str("total"),
                                    typeName |-> Elementary("uint256"),
                                    visibility |-> <<>>,
                                    isDeclaredConst |-> FALSE, isImmutable |-> FALSE]>>]],
       \* 3: address public owner;
       [class |-> "var", name |-> Str("owner"),
        text  |-> <<"address", " ", "public", " ", "owner", ";">>,
        type  |-> Str("address"),
        vis   |-> Str("public"), mut |-> <<>>, params |-> NoParams, ended |-> ";", const |-> FALSE,
        node  |-> [type |-> "StateVariableDeclaration",
                   variables |-> <<[name |-> Str("owner"),
                                    typeName |-> Elementary("address"),
                                    visibility |-> Str("public"),
                                    isDeclaredConst |-> FALSE, isImmutable |-> FALSE]>>]],
       \* 4: function foo() public {}
       [class |-> "fn", name |-> Str("foo"),
        text  |-> <<"function", " ", "foo", "(", ")", " ", "public", " ", "{", "}">>,
        type  |-> <<>>,
        vis   |-> Str("public"), mut |-> <<>>, params |-> NoParams, ended |-> "{}", const |-> FALSE,
        node  |-> [type |-> "FunctionDefinition", name |-> Str("foo"),
                   isConstructor |-> FALSE, visibility |-> Str("public"),
                   stateMutability |-> <<>>, parameters |-> <<>>,
                   returnParameters |-> <<>>]],
       \* 5: function bar(address, uint256 amt) external view;
       [class |-> "fn", name |-> Str("bar"),
        text  |-> <<"function", " ", "bar", "(", "address", ",", " ", "uint256", " ", "amt",
                    ")", " ", "external", " ", "view", ";">>,
        type  |-> <<>>,
        vis   |-> Str("external"), mut |-> Str("view"),
        params |-> <<Str("address"), <<"uint256", " ", "amt">>>>, ended |-> ";", const |-> FALSE,
        node  |-> [type |-> "FunctionDefinition", name |-> Str("bar"),
                   isConstructor |-> FALSE, visibility |-> Str("external"),
                   stateMutability |-> Str("view"),
                   parameters |-> <<[name |-> <<>>, typeName |-> Elementary("address")],
                                    [name |-> Str("amt"), typeName |-> Elementary("uint256")]>>,
                   returnParameters |-> <<>>]],
       \* 6: constructor(address owner) {}
       [class |-> "ctor", name |-> Str("constructor"),
        text  |-> <<"constructor", "(", "address", " ", "owner", ")", " ", "{", "}">>,
        type  |-> <<>>,
        vis   |-> <<>>, mut |-> <<>>, params |-> <<<<"address", " ", "owner">>>>,
        ended |-> "{}", const |-> FALSE,
        node  |-> [type |-> "FunctionDefinition", name |-> <<>>,
                   isConstructor |-> TRUE, visibility |-> <<>>,
                   stateMutability |-> <<>>,
                   parameters |-> <<[name |-> Str("owner"), typeName |-> Elementary("address")]>>,
                   returnParameters |-> <<>>]],
       \* 7: event Sent(address indexed from);
       [class |-> "event", name |-> Str("Sent"),
        text  |-> <<"event", " ", "Sent", "(", "address", " ", "indexed", " ", "from", ")", ";">>,
        type  |-> <<>>,
        vis   |-> <<>>, mut |-> <<>>,
        params |-> <<<<"address", " ", "indexed", " ", "from">>>>, ended |-> ";", const |-> FALSE,
        node  |-> [type |-> "EventDefinition", name |-> Str("Sent"),
                   parameters |-> <<[name |-> Str("from"), typeName |-> Elementary("address"),
                                     isIndexed |-> TRUE]>>]],
       \* 8: a line comment holding a closing brace:  // }
       [class |-> "comment", name |-> <<>>,
        text  |-> <<"//", " ", "}", "\n">>,
        type  |-> <<>>,
        vis   |-> <<>>, mut |-> <<>>, params |-> NoParams, ended |-> "\n", const |-> FALSE,
        node  |-> NullNode],
       \* 9: uint256 public constant owner = 8;
       [class |-> "var", name |-> Str("owner"),
        text  |-> <<"uint256", " ", "public", " ", "constant", " ", "owner", " ", "=", " ",
                    "8", ";">>,
        type  |-> Str("uint256"),
        vis   |-> Str("public"), mut |-> <<>>, params |-> NoParams, ended |-> ";",
        const |-> TRUE,
        node  |-> [type |-> "StateVariableDeclaration",
                   variables |-> <<[name |-> Str("owner"),
                                    typeName |-> Elementary("uint256"),
                                    visibility |-> Str("public"),
                                    isDeclaredConst |-> TRUE, isImmutable |-> FALSE]>>]],
       \* 10: mapping(address => bool) public seen;
       [class |-> "var", name |-> Str("seen"),
        text  |-> <<"mapping", "(", "address", " ", "=", ">", " ", "bool", ")",
                    " ", "public", " ", "seen", ";">>,
        type  |-> <<"mapping", "(", "address", " ", "=", ">", " ", "bool", ")">>,
        vis   |-> Str("public"), mut |-> <<>>, params |-> NoParams, ended |-> ";", const |-> FALSE,
        node  |-> [type |-> "StateVariableDeclaration",
                   variables |-> <<[name |-> Str("seen"),
                                    typeName |-> [type |-> "Mapping",
                                                  keyType |-> Elementary("address"),
                                                  valueType |-> Elementary("bool")],
                                    visibility |-> Str("public"),
                                    isDeclaredConst |-> FALSE, isImmutable |-> FALSE]>>]],
       \* 11: a function with a local variable on a line of its own:
       \*     function baz() public {
       \*     uint256 amt = 8; }
       [class |-> "fn", name |-> Str("baz"),
        text  |-> <<"function", " ", "baz", "(", ")", " ", "public", " ", "{", "\n",
                    "uint256", " ", "amt", " ", "=", " ", "8", ";", " ", "}">>,
        type  |-> <<>>,
        vis   |-> Str("public"), mut |-> <<>>, params |-> NoParams, ended |-> "{}", const |-> FALSE,
        node  |-> [type |-> "FunctionDefinition", name |-> Str("baz"),
                   isConstructor |-> FALSE, visibility |-> Str("public"),
                   stateMutability |-> <<>>, parameters |-> <<>>,
                   returnParameters |-> <<>>]] >>

\* The declaration heads: kind, name, base names.
HeadPool ==
    << [kind |-> "contract",  name |-> "A", bases |-> <<>>],
       [kind |-> "interface", name |-> "I", bases |-> <<"B", "C">>],
       [kind |-> "contract",  name |-> "M", bases |-> <<"Ownable">>] >>

SeqsUpTo(S, n) == UNION {[1..k -> S] : k \in 0..n}

\* Units of one declaration with up to MaxMembers members, and units of up
\* to MaxDecls declarations with at most one member, with or without a
\* pragma and an import line in front.  sep is the white space between
\* tokens, members and declarations; closed tells whether the last
\* declaration has its closing brace.
Units ==
    {[heads |-> <<h>>, members |-> ms, sep |-> sep, closed |-> cl, header |-> FALSE] :
        h \in 1..2, ms \in SeqsUpTo(1..Len(MemberPool), MaxMembers),
        sep \in Space, cl \in BOOLEAN}
    \cup
    {[heads |-> hs, members |-> ms, sep |-> sep, closed |-> cl, header |-> hd] :
        hs \in SeqsUpTo(1..Len(HeadPool), MaxDecls) \ {<<>>},
        ms \in SeqsUpTo(1..Len(MemberPool), 1),
        sep \in Space, cl \in BOOLEAN, hd \in BOOLEAN}
    \cup
    {[heads |-> <<>>, members |-> <<>>, sep |-> " ", closed |-> TRUE, header |-> hd] :
        hd \in BOOLEAN}

\* Units without any declaration: free functions, events and comments at
\* the top level of the file, with or without the pragma and import lines.
NoDeclUnits ==
    {[heads |-> <<>>, members |-> ms, sep |-> sep, closed |-> TRUE, header |-> hd] :
        ms \in SeqsUpTo({j \in 1..Len(MemberPool) :
                            MemberPool[j].class \in {"fn", "event", "comment"}}, MaxMembers),
        sep \in Space, hd \in BOOLEAN}

\* Units of one declaration with at most one member.
SmallUnits ==
    {[heads |-> <<h>>, members |-> ms, sep |-> sep, closed |-> TRUE, header |-> FALSE] :
        h \in 1..2, ms \in SeqsUpTo(1..Len(MemberPool), 1), sep \in Space}

RECURSIVE JoinWith(_, _)
JoinWith(ts, d) ==
    IF Len(ts) = 0 THEN <<>>
    ELSE IF Len(ts) = 1 THEN ts[1]
    ELSE ts[1] \o d \o JoinWith(Tail(ts), d)

HeaderText == <<"pragma", " ", "solidity", " ", "^", "0", ".", "8", ";", "\n",
                "import", " ", "\"", "B", "\"", ";", "\n">>

HeadText(h, sep) ==
    <<h.kind, " ", h.name>>
      \o (IF Len(h.bases) > 0
          THEN <<" ", "is", " ">> \o JoinWith(MapSeq(h.bases, Str), <<",", " ">>)
          ELSE <<>>)
      \o <<sep, "{">>

\* the members of the k-th declaration of unit u
MembersOf(u, k) == IF k = 1 THEN MapSeq(u.members, LAMBDA j : MemberPool[j]) ELSE <<>>

\* the text of the k-th declaration of unit u
DeclText(u, k) ==
    HeadText(HeadPool[u.heads[k]], u.sep)
      \o Flatten(MapSeq(MembersOf(u, k), LAMBDA m : <<u.sep>> \o m.text))
      \o (IF k < Len(u.heads) \/ u.closed THEN <<u.sep, "}">> ELSE <<>>)

\* a unit without declarations has its members at the top level of the file
UnitText(u) ==
    (IF u.header THEN HeaderText ELSE <<>>)
      \o (IF Len(u.heads) = 0
          THEN JoinWith(MapSeq(u.members, LAMBDA j : MemberPool[j].text), <<u.sep>>)
          ELSE JoinWith([k \in 1..Len(u.heads) |-> DeclText(u, k)], <<u.sep>>))

\* What parser.parse(source) returns for the text of unit u when it does
\* not throw: the directives, and one ContractDefinition for each
\* declaration with a sub-node for each member but comments; members at the
\* top level of the file are children of the source unit.
AstOf(u) ==
    [children |->
       (IF u.header
        THEN <<[type |-> "PragmaDirective", value |-> <<"^", "0", ".", "8">>],
               [type |-> "ImportDirective", path |-> Str("B")]>>
        ELSE <<>>)
       \o [k \in 1..Len(u.heads) |->
             [type |-> "ContractDefinition",
              name |-> Str(HeadPool[u.heads[k]].name),
              kind |-> Str(HeadPool[u.heads[k]].kind),
              baseContracts |-> MapSeq(HeadPool[u.heads[k]].bases,
                                       LAMBDA b : [baseName |-> [namePath |-> Str(b)]]),
              subNodes |-> MapSeq(SelectSeq(MembersOf(u, k), LAMBDA m : m.node.type # "null"),
                                  LAMBDA m : m.node)]]
       \o (IF Len(u.heads) = 0
           THEN MapSeq(SelectSeq(MapSeq(u.members, LAMBDA j : MemberPool[j]),
                                 LAMBDA m : m.node.type # "null"),
                       LAMBDA m : m.node)
           ELSE <<>>)]

\* ------------------------------------------------------------------------
\* Contracts handed to buildResult directly
\* ------------------------------------------------------------------------
MaxFunctions == 16   \* functions of the first contract of a sized input
MaxVariables == 11   \* state variables of the first contract of a sized input
MaxContracts == 2    \* contracts of an edited text

FunctionDefOf(name, visibility) ==
    [name |-> name, visibility |-> visibility, stateMutability |-> Str("nonpayable"),
     parameters |-> <<>>, returnParameters |-> <<>>,
     isConstructor |-> FALSE, isModifier |-> FALSE]

StateVariableOf(name, typeName) ==
    [name |-> name, typeName |-> typeName, visibility |-> Str("internal"),
     constant |-> FALSE, immutable |-> FALSE]

ContractDefOf(name, stateVariables, functions) ==
    [name |-> name, kind |-> Str("contract"), baseContracts |-> <<>>,
     stateVariables |-> stateVariables, functions |-> functions, events |-> <<>>]

\* the function names the ERC-20 test looks for, in the spellings of a
\* source text, and another name
FnNames == <<"transfer", "Approve", "transferFrom", "foo">>

\* Sized inputs: contract A with f functions f1, f2, ... (the second one
\* private) and v variables v1, v2, ..., alone or followed by a contract B
\* with one function and one variable.
SizedInputs ==
    {<<ContractDefOf(Str("A"),
                     [j \in 1..v |-> StateVariableOf(Str("v" \o ToString(j)), Str("uint256"))],
                     [j \in 1..f |-> FunctionDefOf(Str("f" \o ToString(j)),
                                       IF j = 2 THEN Str("private") ELSE Str("public"))])>>
       \o (IF second
           THEN <<ContractDefOf(Str("B"),
                                <<StateVariableOf(Str("total"), Str("uint256"))>>,
                                <<FunctionDefOf(Str("foo"), Str("external"))>>)>>
           ELSE <<>>) :
        f \in 0..MaxFunctions, v \in {0, MaxVariables - 1, MaxVariables}, second \in BOOLEAN}

\* a source text the contracts are extracted from: a contract on a line,
\* each state variable on a line of its own, the functions after them
TextOf(contracts) ==
    JoinWith(MapSeq(contracts,
       LAMBDA c :
         <<"contract", " ">> \o c.name \o <<"{">>
           \o Flatten(MapSeq(c.stateVariables,
                  LAMBDA v : <<"\n">> \o v.typeName \o <<" ">> \o v.name \o <<";">>))
           \o Flatten(MapSeq(c.functions,
                  LAMBDA f : <<"function", " ">> \o f.name \o <<"(", ")">>
                               \o f.visibility \o <<"{", "}">>))
           \o <<"}">>),
       <<"\n">>)

\* what the optional parser returns for TextOf(contracts)
AstFrom(contracts) ==
    [children |->
       MapSeq(contracts,
         LAMBDA c :
           [type |-> "ContractDefinition", name |-> c.name, kind |-> c.kind,
            baseContracts |-> <<>>,
            subNodes |->
              MapSeq(c.stateVariables,
                LAMBDA v : [type |-> "StateVariableDeclaration",
                            variables |-> <<[name |-> v.name,
                                             typeName |-> [type |-> "ElementaryTypeName",
                                                           name |-> v.typeName],
                                             visibility |-> <<>>,
                                             isDeclaredConst |-> FALSE,
                                             isImmutable |-> FALSE]>>])
              \o MapSeq(c.functions,
                   LAMBDA f : [type |-> "FunctionDefinition", name |-> f.name,
                               isConstructor |-> FALSE, visibility |-> f.visibility,
                               stateMutability |-> <<>>, parameters |-> <<>>,
                               returnParameters |-> <<>>])])]

\* ------------------------------------------------------------------------
\* The state machine
\* ------------------------------------------------------------------------
VARIABLES
    unit,      \* the unit the source text was written from
    input,     \* the contracts a text was rendered from (sized and named inputs)
    source,    \* the argument of parseSolidity
    pc,        \* "ready": no text is loaded yet, "done": one is loaded; "added" and
               \* "reordered": the text has been edited; "compared": the
               \* reordered text is loaded
    parser,    \* what window.__solidityParser did in the call
    parsed,    \* the ParsedContract returned
    bodies,    \* for each declaration matched: startIdx and the body text extracted
    mappings,  \* the rules applyMappingRules returns for parsed
    skeleton,  \* what generateAnchorSkeleton returns for parsed
    costs,     \* what estimateCosts returns for source and parsed
    checklist, \* what buildChecklist returns when the checklist is shown
    earlier,   \* the ParsedContract the earlier load of the same source gave
    activeStep,     \* App: the id of the wizard step shown
    fileName,       \* App: the name handed to handleFileLoaded last
    error,          \* App: the text of the error banner, "" when there is none
    reads,          \* FileUploader: the reads started whose onload has not fired
                    \* yet, oldest first; each is the file being read
    newest,         \* the file handed to FileUploader most recently
    checked,        \* ChecklistExport: the ids of the ticked items
    filterSection,  \* ChecklistExport: "All" or the section shown
    filterPriority, \* ChecklistExport: "all" or the priority shown
    clicks,         \* ChecklistExport: the clicks made since it was mounted
    status,         \* LiveBridgeDemo: the BridgeStatus
    si,             \* LiveBridgeDemo: the index of the step shown as active
    txs,            \* LiveBridgeDemo: the chains of the transaction records
    logs,           \* LiveBridgeDemo: the number of lines of the log
    amt,            \* LiveBridgeDemo: the amount chosen
    elapsed         \* LiveBridgeDemo: the time shown, in ticks of 100 ms

\* (source is App's contractSource.  App's loading is true only inside
\* handleFileLoaded, which has no await and runs to its end in one step, so
\* it is false in every state.)
appVars    == <<activeStep, fileName, error, reads, newest>>
listVars   == <<checked, filterSection, filterPriority, clicks>>
bridgeVars == <<status, si, txs, logs, amt, elapsed>>

vars == <<unit, input, source, pc, parser, parsed, bodies, mappings, skeleton, costs,
          checklist, earlier, activeStep, fileName, error, reads, newest,
          checked, filterSection, filterPriority, clicks, status, si, txs, logs, amt,
          elapsed>>

Null == [null |-> TRUE]

ParserOutcomes == {"absent", "throws", "returns"}

\* the state before a source is loaded
Fresh ==
    /\ pc = "ready"
    /\ parser = "none"
    /\ parsed = Null
    /\ bodies = <<>>
    /\ mappings = <<>>
    /\ skeleton = Null
    /\ costs = Null
    /\ checklist = Null
    /\ earlier = Null
    /\ activeStep = "upload"
    /\ fileName = ""
    /\ error = ""
    /\ reads = <<>>
    /\ newest = Null
    /\ checked = {}
    /\ filterSection = "All"
    /\ filterPriority = "all"
    /\ clicks = 0
    /\ status = "idle"
    /\ si = -1
    /\ txs = <<>>
    /\ logs = 0
    /\ amt = "10"
    /\ elapsed = 0

Init ==
    /\ unit \in Units
    /\ input = Null
    /\ source = UnitText(unit)
    /\ Fresh

\* handleFileLoaded after const p = parseSolidity(source):
\* const m = applyMappingRules(p); const s = generateAnchorSkeleton(p);
\* const c = estimateCosts(source, p); and the setters of the try block
Loaded(src, p) ==
    /\ source' = src
    /\ parsed' = p
    /\ mappings' = applyMappingRules(p)
    /\ skeleton' = generateAnchorSkeleton(p)
    /\ costs' = estimateCosts(src, p)

\* the try block of handleFileLoaded when nothing throws, with the parser
\* doing `how` in the call of parseSolidity and returning ast
Load(src, how, ast) ==
    /\ parser' = how
    /\ bodies' = IF how = "returns" THEN <<>>
                 ELSE MapSeq(ContractMatches(src),
                             LAMBDA m : [startIdx |-> m.end, body |-> BodyOf(src, m)])
    /\ Loaded(src, parseSolidity(src, [present |-> how # "absent",
                                       throws  |-> how = "throws",
                                       ast     |-> ast]))

\* handleFileLoaded(src, name): setContractSource, setFileName and
\* setError("") come first; when a call of the try block throws (fails),
\* the catch block sets the error and no other setter runs
handleFileLoaded(src, name, how, ast, fails) ==
    /\ fileName' = name
    /\ IF fails
       THEN /\ source' = src
            /\ error' = "Failed to parse contract."
            /\ UNCHANGED <<parser, bodies, parsed, mappings, skeleton, costs, activeStep>>
       ELSE /\ Load(src, how, ast)
            /\ error' = ""
            /\ activeStep' = "analysis"

\* the name of the file of the specifications that load one text
TheFile == "contract.sol"

\* a text is loaded: the first one, the same one again, or an edited one;
\* on these texts no call of the try block throws
Analyze ==
    /\ pc \in {"ready", "added", "reordered"}
    /\ \E how \in ParserOutcomes :
         handleFileLoaded(source, TheFile, how,
                          IF unit # Null THEN AstOf(unit) ELSE AstFrom(input), FALSE)
    /\ pc' = IF pc = "reordered" THEN "compared" ELSE "done"
    /\ UNCHANGED <<unit, input, checklist, earlier, reads, newest>>
    /\ UNCHANGED <<listVars, bridgeVars>>

\* the checklist step is chosen and ChecklistExport is mounted:
\* buildChecklist(parsed, mappings, skeleton), the automated items ticked,
\* no filter
ShowChecklist ==
    /\ pc = "done"
    /\ checklist = Null
    /\ activeStep' = "checklist"
    /\ checklist' = buildChecklist(parsed, mappings, skeleton)
    /\ checked' = {checklist'[j].id : j \in {k \in 1..Len(checklist') : checklist'[k].automated}}
    /\ filterSection' = "All"
    /\ filterPriority' = "all"
    /\ clicks' = 0
    /\ UNCHANGED <<unit, input, source, pc, parser, parsed, bodies, mappings, skeleton,
                   costs, earlier, fileName, error, reads, newest>>
    /\ UNCHANGED bridgeVars

Next == Analyze \/ ShowChecklist

Spec == Init /\ [][Next]_vars

\* ------------------------------------------------------------------------
\* Loading a text without a declaration
\* ------------------------------------------------------------------------
InitNoDecl ==
    /\ unit \in NoDeclUnits
    /\ input = Null
    /\ source = UnitText(unit)
    /\ Fresh

NextNoDecl == Analyze \/ ShowChecklist

SpecNoDecl == InitNoDecl /\ [][NextNoDecl]_vars
\* ------------------------------------------------------------------------
\* Calling parseSolidity twice on one text
\* ------------------------------------------------------------------------
InitTwice ==
    /\ unit \in SmallUnits
    /\ input = Null
    /\ source = UnitText(unit)
    /\ Fresh

\* the same file is chosen once more: the result of the first load is kept
\* in `earlier` for comparison, and handleFileLoaded runs on the source anew
LoadAgain ==
    /\ pc = "done"
    /\ earlier = Null
    /\ earlier' = parsed
    /\ pc' = "ready"
    /\ UNCHANGED <<unit, input, source, parser, parsed, bodies, mappings, skeleton,
                   costs, checklist>>
    /\ UNCHANGED <<appVars, listVars, bridgeVars>>

NextTwice == Analyze \/ LoadAgain

SpecTwice == InitTwice /\ [][NextTwice]_vars
\* ------------------------------------------------------------------------
\* Loading the text of given contracts, then an edited text
\* ------------------------------------------------------------------------
InitSized ==
    /\ unit = Null
    /\ input \in SizedInputs
    /\ source = TextOf(input)
    /\ Fresh

NextSized == Analyze

SpecSized == InitSized /\ [][NextSized]_vars

InitNamed ==
    /\ unit = Null
    /\ input = <<ContractDefOf(Str("A"), <<>>, <<>>)>>
    /\ source = TextOf(input)
    /\ Fresh

TotalFns(contracts)  == SumSeq(MapSeq(contracts, LAMBDA c : Len(c.functions)))
TotalVars(contracts) == SumSeq(MapSeq(contracts, LAMBDA c : Len(c.stateVariables)))

\* the text is edited: it now holds `contracts`; nothing is loaded yet
Edited(contracts) ==
    /\ input' = contracts
    /\ source' = TextOf(contracts)
    /\ UNCHANGED <<unit, parser, parsed, bodies, mappings, skeleton, costs, checklist,
                   earlier>>
    /\ UNCHANGED <<appVars, listVars, bridgeVars>>

\* a function is added at the end of the last contract; the names are taken
\* in the order of FnNames, any of them left out
AddFunction ==
    /\ pc = "done"
    /\ \E n \in 1..Len(FnNames) :
         /\ \A k \in 1..Len(input) : \A j \in 1..Len(input[k].functions) :
               \E m \in 1..(n - 1) : input[k].functions[j].name = Str(FnNames[m])
         /\ Edited([input EXCEPT ![Len(input)].functions =
                       Append(@, FunctionDefOf(Str(FnNames[n]), Str("public")))])
    /\ pc' = "added"

\* an empty contract is added at the end
AddContract ==
    /\ pc = "done"
    /\ Len(input) < MaxContracts
    /\ Edited(Append(input, ContractDefOf(Str("B"), <<>>, <<>>)))
    /\ pc' = "added"

Swap(ts, j) == [ts EXCEPT ![j] = ts[j + 1], ![j + 1] = ts[j]]

\* two neighbouring functions of a contract, or two neighbouring contracts,
\* change places; once the reordered text is loaded the results are compared
\* and no further edit is made
Reorder ==
    /\ pc = "done"
    /\ \/ \E k \in 1..Len(input) : \E j \in 1..(Len(input[k].functions) - 1) :
            Edited([input EXCEPT ![k].functions = Swap(@, j)])
       \/ \E k \in 1..(Len(input) - 1) : Edited(Swap(input, k))
    /\ pc' = "reordered"

NextNamed == Analyze \/ AddFunction \/ AddContract \/ Reorder

SpecNamed == InitNamed /\ [][NextNamed]_vars

\* ------------------------------------------------------------------------
\* The wizard: files handed to FileUploader, and the steps of App
\* ------------------------------------------------------------------------
STEPS == <<"upload", "analysis", "mapping", "anchor", "token", "bridge", "cost",
           "perf", "checklist", "report">>

\* STEPS.findIndex((s) => s.id === step), 0-based, -1 when there is none
stepIndexOf(step) ==
    IF \E i \in 1..Len(STEPS) : STEPS[i] = step
    THEN (CHOOSE i \in 1..Len(STEPS) : STEPS[i] = step) - 1
    ELSE -1

\* a step bar whose buttons are never locked
Locked_Never(i) == FALSE
\* const locked = !parsed && i > 0, for the button of index i of the step bar
Locked(i) == parsed = Null /\ i > 0

MaxReads == 2   \* reads in progress at one time

\* the files of the user: `contract A { uint256 total; }` and `interface I { }`
Files ==
    << [name |-> "A.sol",
        unit |-> [heads |-> <<1>>, members |-> <<2>>, sep |-> " ", closed |-> TRUE,
                  header |-> FALSE]],
       [name |-> "I.sol",
        unit |-> [heads |-> <<2>>, members |-> <<>>, sep |-> " ", closed |-> TRUE,
                  header |-> FALSE]] >>

InitApp ==
    /\ unit = Null
    /\ input = Null
    /\ source = <<>>
    /\ Fresh

\* handleFile(file): a FileReader is started on the file; FileUploader is on
\* the page in the upload step only
ChooseFile ==
    /\ activeStep = "upload"
    /\ Len(reads) < MaxReads
    /\ \E f \in 1..Len(Files) :
         /\ reads' = Append(reads, Files[f])
         /\ newest' = Files[f]
    /\ UNCHANGED <<unit, input, source, pc, parser, parsed, bodies, mappings, skeleton,
                   costs, checklist, earlier, activeStep, fileName, error>>
    /\ UNCHANGED <<listVars, bridgeVars>>

\* reader.onload of one of the reads in progress fires and calls
\* onFileLoaded(e.target.result, file.name), which is handleFileLoaded; the
\* reads end in any order, and a call of the try block may throw
ReadDone ==
    /\ \E i \in 1..Len(reads) : \E how \in ParserOutcomes : \E fails \in BOOLEAN :
         /\ handleFileLoaded(UnitText(reads[i].unit), reads[i].name, how,
                             AstOf(reads[i].unit), fails)
         /\ unit' = reads[i].unit
         /\ reads' = SubSeq(reads, 1, i - 1) \o SubSeq(reads, i + 1, Len(reads))
         /\ pc' = IF fails THEN pc ELSE "done"
    /\ UNCHANGED <<input, checklist, earlier, newest>>
    /\ UNCHANGED <<listVars, bridgeVars>>

\* the button of a step of the step bar: onClick={() => !locked && setActiveStep(step.id)}
GoToStep ==
    /\ \E i \in 0..(Len(STEPS) - 1) :
         /\ ~Locked(i)
         /\ activeStep' = STEPS[i + 1]
    /\ UNCHANGED <<unit, input, source, pc, parser, parsed, bodies, mappings, skeleton,
                   costs, checklist, earlier, fileName, error, reads, newest>>
    /\ UNCHANGED <<listVars, bridgeVars>>

\* a Back button that also drops the parsed contract
Back_Forgetting ==
    /\ parsed # Null
    /\ stepIndexOf(activeStep) # 0
    /\ activeStep' = STEPS[(stepIndexOf(activeStep) - 1) + 1]
    /\ parsed' = Null
    /\ UNCHANGED <<unit, input, source, pc, parser, bodies, mappings, skeleton,
                   costs, checklist, earlier, fileName, error, reads, newest>>
    /\ UNCHANGED <<listVars, bridgeVars>>
\* the Back button of the bottom bar, which is there when parsed is set and
\* is disabled at the first step
Back ==
    /\ parsed # Null
    /\ stepIndexOf(activeStep) # 0
    /\ activeStep' = STEPS[(stepIndexOf(activeStep) - 1) + 1]
    /\ UNCHANGED <<unit, input, source, pc, parser, parsed, bodies, mappings, skeleton,
                   costs, checklist, earlier, fileName, error, reads, newest>>
    /\ UNCHANGED <<listVars, bridgeVars>>

\* the Next button of the bottom bar, disabled at the last step
Forward ==
    /\ parsed # Null
    /\ stepIndexOf(activeStep) # Len(STEPS) - 1
    /\ activeStep' = STEPS[(stepIndexOf(activeStep) + 1) + 1]
    /\ UNCHANGED <<unit, input, source, pc, parser, parsed, bodies, mappings, skeleton,
                   costs, checklist, earlier, fileName, error, reads, newest>>
    /\ UNCHANGED <<listVars, bridgeVars>>

\* the button of the error banner: setError("")
DismissError ==
    /\ error # ""
    /\ error' = ""
    /\ UNCHANGED <<unit, input, source, pc, parser, parsed, bodies, mappings, skeleton,
                   costs, checklist, earlier, activeStep, fileName, reads, newest>>
    /\ UNCHANGED <<listVars, bridgeVars>>

NextApp == ChooseFile \/ ReadDone \/ GoToStep \/ Back \/ Forward \/ DismissError

SpecApp == InitApp /\ [][NextApp]_vars
\* ------------------------------------------------------------------------
\* LiveBridgeDemo
\* ------------------------------------------------------------------------
fileVars == <<unit, input, source, pc, parser, parsed, bodies, mappings, skeleton, costs,
              checklist, earlier>>

\* STEPS with approving and locking exchanged
BRIDGE_STEPS_Exchanged ==
    << [id |-> "connecting", ms |-> 1200],
       [id |-> "locking",    ms |-> 2500],
       [id |-> "approving",  ms |-> 2000],
       [id |-> "attesting",  ms |-> 4000],
       [id |-> "minting",    ms |-> 2000],
       [id |-> "complete",   ms |-> 0] >>

\* STEPS of LiveBridgeDemo: the status of each step and the time it waits
BRIDGE_STEPS ==
    << [id |-> "connecting", ms |-> 1200],
       [id |-> "approving",  ms |-> 2000],
       [id |-> "locking",    ms |-> 2500],
       [id |-> "attesting",  ms |-> 4000],
       [id |-> "minting",    ms |-> 2000],
       [id |-> "complete",   ms |-> 0] >>

Amounts == {"1", "10", "100"}

MaxTicks == 6   \* ticks of the elapsed-time interval that are counted

\* const isRunning = status !== "idle" && status !== "complete" && status !== "error"
isRunning == status \notin {"idle", "complete", "error"}

\* the component state the run writes
BridgeState == [status |-> status, si |-> si, txs |-> txs, logs |-> logs]

\* the body of the loop after the wait of the step `id`: the transaction
\* records and log lines of locking, attesting and minting
AfterWait(id, st) ==
    IF id = "locking" THEN [st EXCEPT !.txs = Append(@, "Sepolia"), !.logs = @ + 2]
    ELSE IF id = "attesting" THEN [st EXCEPT !.logs = @ + 1]
    ELSE IF id = "minting" THEN [st EXCEPT !.txs = Append(@, "Solana"), !.logs = @ + 2]
    ELSE st

\* run() from the head of the iteration i (0-based) to its next wait: the
\* status, index and log line of the step; a step with ms = 0 does not wait;
\* after the last step setStatus("complete") and two log lines
RECURSIVE RunFrom(_, _)
RunFrom(i, st) ==
    IF i >= Len(BRIDGE_STEPS)
    THEN [st EXCEPT !.status = "complete", !.logs = @ + 2]
    ELSE LET s   == BRIDGE_STEPS[i + 1]
             st1 == [st EXCEPT !.status = s.id, !.si = i, !.logs = @ + 1]
         IN  IF s.ms > 0 THEN st1 ELSE RunFrom(i + 1, AfterWait(s.id, st1))

InitBridge ==
    /\ unit = Null
    /\ input = Null
    /\ source = <<>>
    /\ Fresh

\* the Launch button, shown when status is "idle": run() up to its first wait
Launch ==
    /\ status = "idle"
    /\ LET st == RunFrom(0, [status |-> "connecting", si |-> 0, txs |-> <<>>, logs |-> 0])
       IN  /\ status' = st.status
           /\ si' = st.si
           /\ txs' = st.txs
           /\ logs' = st.logs
    /\ elapsed' = 0
    /\ UNCHANGED <<amt, fileVars, appVars, listVars>>

\* the timer of the step waited for fires: run() goes on to its next wait
\* or to its end
TimerFires ==
    /\ isRunning
    /\ LET st == RunFrom(si + 1, AfterWait(BRIDGE_STEPS[si + 1].id, BridgeState))
       IN  /\ status' = st.status
           /\ si' = st.si
           /\ txs' = st.txs
           /\ logs' = st.logs
    /\ UNCHANGED <<amt, elapsed, fileVars, appVars, listVars>>

\* the interval set while the demo runs: setElapsed(e => e + 100)
Tick ==
    /\ isRunning
    /\ elapsed < MaxTicks
    /\ elapsed' = elapsed + 1
    /\ UNCHANGED <<status, si, txs, logs, amt, fileVars, appVars, listVars>>

\* an amount button: onClick={() => !isRunning && setAmt(v)}
SetAmt ==
    /\ ~isRunning
    /\ \E v \in Amounts : amt' = v
    /\ UNCHANGED <<status, si, txs, logs, elapsed, fileVars, appVars, listVars>>

\* the Run Again button, shown when status is "complete" or "error": reset()
Reset ==
    /\ status \in {"complete", "error"}
    /\ status' = "idle"
    /\ si' = -1
    /\ txs' = <<>>
    /\ logs' = 0
    /\ elapsed' = 0
    /\ UNCHANGED <<amt, fileVars, appVars, listVars>>

NextBridge == Launch \/ TimerFires \/ Tick \/ SetAmt \/ Reset

\* a timer that was set fires
SpecBridge == InitBridge /\ [][NextBridge]_vars /\ WF_vars(TimerFires)
\* ------------------------------------------------------------------------
\* ChecklistExport: ticking and filtering the items
\* ------------------------------------------------------------------------
MaxClicks  == 4   \* clicks on the checklist that are followed
MaxToggled == 2   \* the visible items ticked by hand: the first ones shown

\* const sections = ["All", ...new Set(items.map((i) => i.section))]
Sections == {"All"} \cup {checklist[j].section : j \in 1..Len(checklist)}

Priorities == {"all", "critical", "high", "medium", "low"}

\* const filtered = items.filter(...): the positions of the items shown
Filtered ==
    SelectSeq([j \in 1..Len(checklist) |-> j],
              LAMBDA j : /\ filterSection = "All" \/ checklist[j].section = filterSection
                         /\ filterPriority = "all" \/ checklist[j].priority = filterPriority)

\* the ids of the items shown
FilteredIds == {checklist[Filtered[k]].id : k \in 1..Len(Filtered)}

\* the parts of the state a click on the checklist leaves alone
ListFrame ==
    /\ UNCHANGED <<fileVars, appVars, bridgeVars>>

InitList ==
    /\ unit \in {u \in SmallUnits : u.sep = " " /\ u.heads = <<1>>
                                       /\ u.members \in {<<>>, <<2>>}}
    /\ input = Null
    /\ source = UnitText(unit)
    /\ Fresh

\* the box of an item shown is clicked: toggle(item.id)
Toggle ==
    /\ checklist # Null
    /\ clicks < MaxClicks
    /\ \E k \in 1..Len(Take(Filtered, MaxToggled)) :
         LET id == checklist[Filtered[k]].id
         IN  checked' = IF id \in checked THEN checked \ {id} ELSE checked \cup {id}
    /\ clicks' = clicks + 1
    /\ UNCHANGED <<filterSection, filterPriority>>
    /\ ListFrame

\* a section button: setFilterSection(s)
SetFilterSection ==
    /\ checklist # Null
    /\ clicks < MaxClicks
    /\ \E sec \in Sections : filterSection' = sec
    /\ clicks' = clicks + 1
    /\ UNCHANGED <<checked, filterPriority>>
    /\ ListFrame

\* a priority button: setFilterPriority(p)
SetFilterPriority ==
    /\ checklist # Null
    /\ clicks < MaxClicks
    /\ \E p \in Priorities : filterPriority' = p
    /\ clicks' = clicks + 1
    /\ UNCHANGED <<checked, filterSection>>
    /\ ListFrame

\* "Check visible": setChecked(new Set(filtered.map((i) => i.id)))
checkAll ==
    /\ checklist # Null
    /\ clicks < MaxClicks
    /\ checked' = FilteredIds
    /\ clicks' = clicks + 1
    /\ UNCHANGED <<filterSection, filterPriority>>
    /\ ListFrame

\* "Uncheck visible": every id of filtered is deleted from a copy of the set
uncheckAll ==
    /\ checklist # Null
    /\ clicks < MaxClicks
    /\ checked' = checked \ FilteredIds
    /\ clicks' = clicks + 1
    /\ UNCHANGED <<filterSection, filterPriority>>
    /\ ListFrame

NextList == Analyze \/ ShowChecklist \/ Toggle \/ SetFilterSection \/ SetFilterPriority
              \/ checkAll \/ uncheckAll

SpecList == InitList /\ [][NextList]_vars
\* ------------------------------------------------------------------------
\* Loading a file that grows line by line
\* ------------------------------------------------------------------------
MaxLines == 125   \* the lines of the longest file loaded

\* the lines of a text, counted by its line ends
Lines(t) == 1 + Cardinality({i \in 1..Len(t) : t[i] = "\n"})

InitLines ==
    /\ unit \in {u \in SmallUnits : u.heads = <<1>> /\ u.members \in {<<2>>, <<4>>}}
    /\ input = Null
    /\ source = UnitText(unit)
    /\ Fresh

\* an empty line is added at the start of the file, which is chosen again
AddLine ==
    /\ pc = "done"
    /\ Lines(source) < MaxLines
    /\ source' = <<"\n">> \o source
    /\ pc' = "ready"
    /\ UNCHANGED <<unit, input, parser, parsed, bodies, mappings, skeleton, costs,
                   checklist, earlier>>
    /\ UNCHANGED <<appVars, listVars, bridgeVars>>

NextLines == Analyze \/ AddLine

SpecLines == InitLines /\ [][NextLines]_vars
\* Views on the state of a call.
\* Returned: parseSolidity has returned its ParsedContract.
\* RegexPath: it returned through regexFallbackParser (no parser installed,
\* or the parser threw).
Returned  == pc = "done"
RegexPath == pc = "done" /\ parser \in {"absent", "throws"}

\* the members written into the first declaration of the unit
Written == MembersOf(unit, 1)
WrittenOfClass(cl) == SelectSeq(Written, LAMBDA m : m.class = cl)

\* every declaration of the unit has its closing brace and no brace is
\* hidden in a comment: the text is well-formed Solidity
WellFormed ==
    /\ Len(unit.heads) > 0
    /\ unit.closed
    /\ Len(WrittenOfClass("comment")) = 0

\* what the unit declares: kind, name and base names of each declaration
Declared ==
    [k \in 1..Len(unit.heads) |->
       [kind |-> Str(HeadPool[unit.heads[k]].kind),
        name |-> Str(HeadPool[unit.heads[k]].name),
        baseContracts |-> MapSeq(HeadPool[unit.heads[k]].bases, Str)]]

\* ------------------------------------------------------------------------
\* Properties
\* ------------------------------------------------------------------------
\* C1: whenever an exception is raised while parseSolidity extracts the
\* contracts (the AST parser throws on the input), the result has a
\* non-empty errors sequence with a diagnostic for that failure, next to
\* the best-effort contracts.
C1_ExceptionLeavesDiagnostic ==
    (Returned /\ parser = "throws")
        => /\ Len(parsed.errors) > 0
           /\ \E j \in 1..Len(parsed.errors) :
                 Includes(parsed.errors[j], <<"AST parse error">>)

\* C2: for an input whose last declaration never closes its opening brace,
\* parseSolidity returns, the errors of the result are non-empty, and the
\* declarations before the fault have their records.
C2_UnterminatedBraceReported ==
    (RegexPath /\ Len(unit.heads) > 0 /\ ~unit.closed)
        => /\ parsed # Null
           /\ Len(parsed.errors) > 0
           /\ (Len(unit.heads) > 1 =>
                 /\ Len(parsed.contracts) >= 1
                 /\ parsed.contracts[1].name = Str(HeadPool[unit.heads[1]].name))

\* C3: parseSolidity returns a ParsedContract for every input, and every
\* internal exception is caught and downgraded to an entry in errors.
C3_NoEscapeAllDowngraded ==
    Returned
        => /\ parsed # Null
           /\ DOMAIN parsed = {"contracts", "pragmaVersion", "imports", "isERC20",
                               "isERC721", "hasOwnable", "hasAccessControl",
                               "hasMappings", "hasEvents", "complexity",
                               "lineCount", "errors"}
           /\ (parser = "throws" => parsed.errors # <<>>)

\* C4: for each declaration found, the body text used for extraction is
\* exactly the text between its opening brace and the matching closing
\* brace, also when a comment or a string in the body holds a brace.
\* ClosingBrace is the index (0-based) of the brace that closes the one
\* before position i, read as Solidity reads it: braces in a line comment
\* or in a string literal do not count; -1 when there is none.
C4_BodyIsMatchingBraceSpan ==
    LET RECURSIVE ClosingBrace(_, _, _, _)
        ClosingBrace(t, i, depth, in) ==
            IF i >= Len(t) THEN -1
            ELSE LET ch == t[i + 1]
                 IN  IF in = "comment"
                     THEN ClosingBrace(t, i + 1, depth,
                                       IF ch = "\n" THEN "code" ELSE "comment")
                     ELSE IF in = "string"
                     THEN ClosingBrace(t, i + 1, depth,
                                       IF ch = "\"" THEN "code" ELSE "string")
                     ELSE IF ch = "//" THEN ClosingBrace(t, i + 1, depth, "comment")
                     ELSE IF ch = "\"" THEN ClosingBrace(t, i + 1, depth, "string")
                     ELSE IF ch = "{" THEN ClosingBrace(t, i + 1, depth + 1, "code")
                     ELSE IF ch = "}"
                     THEN IF depth = 1 THEN i
                          ELSE ClosingBrace(t, i + 1, depth - 1, "code")
                     ELSE ClosingBrace(t, i + 1, depth, "code")
    IN  RegexPath
          => \A k \in 1..Len(bodies) :
                LET close == ClosingBrace(source, bodies[k].startIdx, 1, "code")
                IN  close >= 0
                      => bodies[k].body = Slice(source, bodies[k].startIdx, close)

\* C5: every top-level declaration (contract|interface|library) Name
\* [is Base, ...] { ... } of the text, whatever the white space between its
\* tokens and wherever it starts, yields exactly one record with its kind,
\* name and base names; the records are in source order and declarations of
\* the same name stay separate records.
C5_OneRecordPerDeclaration ==
    (RegexPath /\ WellFormed)
        => [k \in 1..Len(parsed.contracts) |->
              [kind |-> parsed.contracts[k].kind,
               name |-> parsed.contracts[k].name,
               baseContracts |-> parsed.contracts[k].baseContracts]] = Declared

\* C6: for a body with a declaration mapping(K => V) [visibility] name; the
\* state variables extracted hold exactly one record of that name, its
\* typeName starts with "mapping", and hasMappings is true.
C6_MappingVariableExtracted ==
    LET IsMapping(ty) == StartsWith(ty, Str("mapping"))
        ms == SelectSeq(Written, LAMBDA x : x.class = "var" /\ IsMapping(x.type))
    IN  (RegexPath /\ WellFormed /\ Len(unit.heads) = 1 /\ Len(ms) = 1)
          => LET vs == SelectSeq(parsed.contracts[1].stateVariables,
                                 LAMBDA v : v.name = ms[1].name)
             IN  /\ Len(parsed.contracts) = 1
                 /\ Len(vs) = 1
                 /\ IsMapping(vs[1].typeName)
                 /\ parsed.hasMappings

\* C7: the number of state variables, over all contracts, whose typeName
\* starts with "mapping" is non-zero exactly when hasMappings is true, and
\* equals the number of PDA-style mapping rules applyMappingRules emits.
C7_MappingCountInvariant ==
    LET IsPdaRule(r) == StartsWith(r.evmConcept, <<"mapping", ":", " ">>)
    IN  Returned
          => /\ (mappingCount(parsed) > 0) <=> parsed.hasMappings
             /\ mappingCount(parsed) = Len(SelectSeq(mappings, IsPdaRule))

\* C8: whenever a contract body declares a constructor, the first element
\* of that contract's functions is the constructor record (name
\* "constructor", isConstructor, visibility "public") wherever the
\* constructor is written, and no other element has isConstructor.
C8_ConstructorFirst ==
    (Returned /\ WellFormed /\ Len(WrittenOfClass("ctor")) > 0)
        => /\ Len(parsed.contracts) >= 1
           /\ LET fs == parsed.contracts[1].functions
              IN  /\ Len(fs) >= 1
                  /\ fs[1].isConstructor
                  /\ fs[1].name = Str("constructor")
                  /\ fs[1].visibility = Str("public")
                  /\ \A j \in 2..Len(fs) : ~fs[j].isConstructor

\* C9: for a body with n function declarations, each followed by a block
\* or ended by ";", the functions hold exactly n records that are not
\* constructors, named as declared and in source order, each with the
\* visibility and mutability of its own signature ("public" and
\* "nonpayable" when it names none).
C9_OneRecordPerFunction ==
    (RegexPath /\ WellFormed /\ Len(unit.heads) = 1)
        => LET fs == SelectSeq(parsed.contracts[1].functions, LAMBDA f : ~f.isConstructor)
           IN  [j \in 1..Len(fs) |->
                  [name |-> fs[j].name, visibility |-> fs[j].visibility,
                   stateMutability |-> fs[j].stateMutability]]
               = MapSeq(WrittenOfClass("fn"),
                        LAMBDA m : [name |-> m.name,
                                    visibility |-> OrElse(m.vis, Str("public")),
                                    stateMutability |-> OrElse(m.mut, Str("nonpayable"))])

\* C10: for every parameter token of a function, a constructor or an event,
\* the record's name is the last word of the token and its typeName all
\* that is before that word; for a token of one word typeName is the word
\* and name is "".
C10_ParameterNameAndType ==
    LET AsClaimed(token) ==
            LET parts == SplitWs(token)
                last  == parts[Len(parts)]
            IN  IF Len(parts) = 1 THEN [typeName |-> token, name |-> <<>>]
                ELSE [typeName |-> Trim(SubSeq(token, 1, Len(token) - Len(last))),
                      name     |-> last]
    IN  (RegexPath /\ WellFormed /\ Len(unit.heads) = 1 /\ Len(Written) = 1
           /\ Written[1].class \in {"fn", "ctor", "event"})
          => LET c  == parsed.contracts[1]
                 ps == IF Written[1].class = "event" THEN c.events[1].parameters
                       ELSE c.functions[1].parameters
             IN  [j \in 1..Len(ps) |-> [typeName |-> ps[j].typeName, name |-> ps[j].name]]
                 = MapSeq(Written[1].params, AsClaimed)

\* C11: for every extracted state variable named N, constant is true iff
\* the body holds "N constant" or "constant N", and immutable is true iff it
\* holds "N immutable" or "immutable N"; a variable declared
\* `T public constant N = ...;` has constant true.
C11_ConstantByName ==
    (RegexPath /\ WellFormed /\ Len(unit.heads) = 1)
      => LET body == bodies[1].body
             vs   == parsed.contracts[1].stateVariables
         IN  /\ \A j \in 1..Len(vs) :
                   /\ vs[j].constant
                        <=> \/ Includes(body, vs[j].name \o <<" ", "constant">>)
                            \/ Includes(body, <<"constant", " ">> \o vs[j].name)
                   /\ vs[j].immutable
                        <=> \/ Includes(body, vs[j].name \o <<" ", "immutable">>)
                            \/ Includes(body, <<"immutable", " ">> \o vs[j].name)
             /\ (Len(Written) = 1 /\ Written[1].class = "var" /\ Written[1].const)
                   => Len(vs) = 1 /\ vs[1].constant

\* C12: the visibility of each extracted state variable is the visibility
\* keyword of its own declaration, and "internal" when its own declaration
\* has none, also when another variable of the same type in the body is
\* declared with a visibility keyword.  (Stated for bodies whose variables
\* have one-word types and different names.)
C12_VisibilityOfOwnDeclaration ==
    LET vars0 == WrittenOfClass("var")
    IN  (RegexPath /\ WellFormed /\ Len(unit.heads) = 1
           /\ (\A j \in 1..Len(vars0) : Len(vars0[j].type) = 1)
           /\ (\A i, j \in 1..Len(vars0) : vars0[i].name = vars0[j].name => i = j))
          => \A k \in 1..Len(parsed.contracts[1].stateVariables) :
                LET v == parsed.contracts[1].stateVariables[k]
                IN  \E j \in 1..Len(vars0) :
                       /\ vars0[j].name = v.name
                       /\ v.visibility = OrElse(vars0[j].vis, Str("internal"))

\* C13: isERC20 is true iff the lower-cased function names of all contracts
\* of the result together include transfer, approve and transferfrom;
\* exchanging two neighbouring functions or contracts of the text leaves
\* isERC20 as it was, and adding a function or a contract to a text with
\* isERC20 true leaves it true.
C13_ERC20ByFunctionNames ==
    /\ [](pc \in {"done", "compared"}
            => LET Named(w) ==
                     \E k \in 1..Len(parsed.contracts) :
                        \E j \in 1..Len(parsed.contracts[k].functions) :
                           Lower(parsed.contracts[k].functions[j].name) = Str(w)
               IN  parsed.isERC20
                     <=> Named("transfer") /\ Named("approve") /\ Named("transferfrom"))
    /\ [][pc = "reordered" => parsed'.isERC20 = parsed.isERC20]_vars
    /\ [][(pc = "added" /\ parsed.isERC20) => parsed'.isERC20]_vars

\* C13 witness: the three functions are spread over two contracts with a
\* fourth function, two neighbours have changed places, and the reordered
\* text read by the regular expressions is an ERC-20 token.
C13_Witness ==
    /\ pc = "compared"
    /\ parser = "absent"
    /\ Len(parsed.contracts) = 2
    /\ Len(parsed.contracts[1].functions) > 0
    /\ Len(parsed.contracts[2].functions) > 0
    /\ TotalFns(parsed.contracts) = 4
    /\ parsed.isERC20

\* C14: with F the functions and V the state variables of all contracts of
\* the result, complexity is "high" iff F > 15 or V > 10, otherwise "medium"
\* iff F > 6, otherwise "low".
C14_ComplexityThresholds ==
    pc = "done"
      => LET F == TotalFns(parsed.contracts)
             V == TotalVars(parsed.contracts)
         IN  /\ parsed.complexity = "high" <=> (F > 15 \/ V > 10)
             /\ parsed.complexity = "medium" <=> (~(F > 15 \/ V > 10) /\ F > 6)
             /\ parsed.complexity = "low" <=> (~(F > 15 \/ V > 10) /\ ~(F > 6))

\* C14 witness: fifteen functions and ten state variables, read by the
\* regular expressions, give "medium".
C14_Witness ==
    /\ pc = "done"
    /\ parser = "absent"
    /\ TotalFns(parsed.contracts) = 15
    /\ TotalVars(parsed.contracts) = 10
    /\ parsed.complexity = "medium"

\* C15: for the empty text and for a text without a contract, interface or
\* library declaration the result has no contracts, isERC20 false, hasEvents
\* false and complexity "low"; without a pragma pragmaVersion is "unknown"
\* and without an import imports is empty.
C15_NothingDeclared ==
    (pc = "done" /\ unit # Null /\ Len(unit.heads) = 0)
      => /\ parsed.contracts = <<>>
         /\ ~parsed.isERC20
         /\ ~parsed.hasEvents
         /\ parsed.complexity = "low"
         /\ ~unit.header => (parsed.pragmaVersion = Str("unknown") /\ parsed.imports = <<>>)

\* C15 witness: a text of a function and an event outside any declaration,
\* without pragma and import, read by the regular expressions.
C15_Witness ==
    /\ pc = "done"
    /\ parser = "absent"
    /\ unit # Null
    /\ Len(unit.heads) = 0
    /\ ~unit.header
    /\ \E i, j \in 1..Len(unit.members) :
          /\ MemberPool[unit.members[i]].class = "fn"
          /\ MemberPool[unit.members[j]].class = "event"
    /\ parsed.contracts = <<>>
    /\ parsed.pragmaVersion = Str("unknown")

\* C17: for a result without contracts applyMappingRules returns a list of
\* rules numbered from 1, each a rule of STATIC_RULES; generateAnchorSkeleton
\* returns the placeholder named migration_example, without files and with
\* the one warning "No contract found."; estimateCosts returns an estimate,
\* of no compute units and 64 account bytes; buildChecklist returns a list of
\* items numbered from 1.
C17_NoContractNoThrow ==
    /\ (pc = "done" /\ Len(parsed.contracts) = 0)
         => /\ Len(mappings) > 0
            /\ \A j \in 1..Len(mappings) :
                  /\ mappings[j].id = j
                  /\ \E k \in 1..Len(STATIC_RULES) :
                        /\ STATIC_RULES[k].evmConcept = mappings[j].evmConcept
                        /\ STATIC_RULES[k].category = mappings[j].category
            /\ skeleton = [programName |-> Str("migration_example"), files |-> <<>>,
                           instructions |-> <<>>, accountStructs |-> <<>>,
                           warnings |-> <<"No contract found.">>]
            /\ costs.ethereum.perTxGas = 51000
            /\ costs.solana.computeUnits = 0
            /\ costs.solana.accountBytes = 64
    /\ (checklist # Null /\ Len(parsed.contracts) = 0)
         => /\ Len(checklist) > 0
            /\ \A j \in 1..Len(checklist) : checklist[j].id = j

\* C17 witness: the checklist of the empty text has been built.
C17_Witness ==
    /\ checklist # Null
    /\ source = <<>>
    /\ Len(parsed.contracts) = 0
    /\ Len(checklist) > 0
    /\ Len(skeleton.files) = 0

\* C16: parseSolidity called twice on the same source text returns the same
\* result both times.
C16_SameResultTwice ==
    (pc = "done" /\ earlier # Null) => parsed = earlier

\* C18: for each of the flags isERC20, isERC721, hasOwnable and
\* hasAccessControl that is true in the result, the rules returned by
\* applyMappingRules hold the rule of that flag: "ERC-20 token",
\* "ERC-721 NFT", "address owner (Ownable)", "AccessControl (roles)".
C18_RuleOfEveryFlag ==
    Returned
      => LET HasRule(concept) ==
               \E j \in 1..Len(mappings) : mappings[j].evmConcept = concept
         IN  /\ parsed.isERC20 => HasRule(Erc20Concept)
             /\ parsed.isERC721 => HasRule(Erc721Concept)
             /\ parsed.hasOwnable => HasRule(OwnableConcept)
             /\ parsed.hasAccessControl => HasRule(AccessControlConcept)

\* C19: lib.rs holds, besides the initialize handler, exactly one
\* instruction handler for each public or external function of the main
\* contract that is not the constructor: the handlers emitted are those
\* listed in skeleton.instructions, however many there are.
C19_HandlerPerInstruction ==
    (pc = "done" /\ Len(skeleton.files) > 0)
      => LET handlers == Tail(skeleton.files[1].content.instructionHandlers)
         IN  /\ \A i \in 1..Len(skeleton.instructions) :
                   Cardinality({j \in 1..Len(handlers) :
                                   handlers[j].name = skeleton.instructions[i]}) = 1
             /\ \A j \in 1..Len(handlers) : Has(skeleton.instructions, handlers[j].name)

\* C20: for every instruction handler of lib.rs, with ctx: Context<T>, the
\* context structs of the same lib.rs hold a struct named T.
C20_ContextStructPerHandler ==
    (pc = "done" /\ Len(skeleton.files) > 0)
      => LET lib == skeleton.files[1].content
         IN  \A j \in 1..Len(lib.instructionHandlers) :
                Has(lib.contextStructs, lib.instructionHandlers[j].ctx)

\* C21: whatever the flags of the ParsedContract, the checklist built from
\* it holds the testing, security-audit and devnet-deploy items and also
\* the Wormhole NTT configuration item and the Sunrise application item.
C21_AlwaysAddedItems ==
    checklist # Null
      => LET Holds(section, text) ==
               \E j \in 1..Len(checklist) :
                  checklist[j].section = section /\ checklist[j].text = <<text>>
         IN  /\ Holds("Testing", "anchor test - all tests passing on localnet")
             /\ Holds("Security",
                    "Request peer code review or professional audit before mainnet")
             /\ Holds("Deployment",
                    "anchor deploy to devnet - verify program ID matches Anchor.toml")
             /\ Holds("Token Migration",
                    "Deploy and test NTT Manager + Transceiver on testnet (Sepolia -> devnet)")
             /\ Holds("Token Migration",
                    "Apply to Sunrise for liquidity routing (sunrisedefi.com)")

\* C22: when the analysed contract has mappings, the checklist holds one PDA
\* seed design task for each state variable whose type is a mapping.
C22_PdaTaskPerMapping ==
    (checklist # Null /\ parsed.hasMappings)
      => LET pdaTasks == {j \in 1..Len(checklist) :
                            /\ checklist[j].section = "Analysis"
                            /\ Len(checklist[j].text) > 0
                            /\ checklist[j].text[1] = "Design PDA seed scheme for "}
         IN  Cardinality(pdaTasks) = mappingCount(parsed)

\* C25: every state-variable record of a contract of the result is a state
\* variable written at the top level of that contract's body; a local
\* variable declared inside a function body gives no record and does not
\* count in the total of state variables.
C25_StateVariablesAtTopLevel ==
    (Returned /\ unit # Null /\ WellFormed)
      => /\ \A k \in 1..Len(parsed.contracts) :
               \A j \in 1..Len(parsed.contracts[k].stateVariables) :
                  /\ k <= Len(unit.heads)
                  /\ \E i \in 1..Len(MembersOf(unit, k)) :
                        /\ MembersOf(unit, k)[i].class = "var"
                        /\ MembersOf(unit, k)[i].name
                             = parsed.contracts[k].stateVariables[j].name
         /\ TotalVars(parsed.contracts) <= Len(WrittenOfClass("var"))

\* C23: a step of the wizard that changes the step shown without ending a
\* read (step bar, Back, Next) leaves contractSource, fileName, parsed,
\* mappings, skeleton and costs as they are, and these six change only in a
\* step in which a read ends and the file is loaded.
C23_StepsKeepResults ==
    [][/\ (activeStep' # activeStep /\ reads' = reads)
            => UNCHANGED <<source, fileName, parsed, mappings, skeleton, costs>>
       /\ (<<source, fileName, parsed, mappings, skeleton, costs>>'
              # <<source, fileName, parsed, mappings, skeleton, costs>>)
            => Len(reads') < Len(reads)]_vars

\* C23 witness: a file is loaded, no read is in progress, and the steps have
\* been walked to the last one.
C23_Witness ==
    /\ parsed # Null
    /\ reads = <<>>
    /\ error = ""
    /\ activeStep = "report"

\* C27: the step shown is other than "upload" only if parsed is set, and the
\* index of the step shown is within 0..9.
C27_StepsNeedParsed ==
    /\ activeStep # "upload" => parsed # Null
    /\ stepIndexOf(activeStep) \in 0..9

\* C27 witness: after a load that went through and the way back to the
\* upload step, a load has thrown.
C27_Witness ==
    /\ parsed # Null
    /\ activeStep = "upload"
    /\ error # ""
    /\ reads = <<>>

\* C28: whenever parsed is set, parsed, mappings, skeleton and costs are the
\* results computed from the current contractSource and fileName names that
\* source; a load that fails sets the error and leaves the step shown as it
\* is.
C28_ResultsOfCurrentSource ==
    /\ [](parsed # Null
            => /\ \E how \in ParserOutcomes :
                     parsed = parseSolidity(source, [present |-> how # "absent",
                                                     throws  |-> how = "throws",
                                                     ast     |-> AstOf(unit)])
               /\ mappings = applyMappingRules(parsed)
               /\ skeleton = generateAnchorSkeleton(parsed)
               /\ costs = estimateCosts(source, parsed)
               /\ \E f \in 1..Len(Files) :
                     Files[f].name = fileName /\ UnitText(Files[f].unit) = source)
    /\ [][(Len(reads') < Len(reads) /\ error' # "") => activeStep' = activeStep]_vars

\* C29: once every read has ended, the App state is that of the file handed
\* to FileUploader last: fileName and contractSource are its name and text,
\* and when no error is shown parsed is the result of parsing that text.
C29_LastSubmittedWins ==
    (reads = <<>> /\ newest # Null)
      => /\ fileName = newest.name
         /\ source = UnitText(newest.unit)
         /\ error = ""
              => \E how \in ParserOutcomes :
                    parsed = parseSolidity(UnitText(newest.unit),
                                           [present |-> how # "absent",
                                            throws  |-> how = "throws",
                                            ast     |-> AstOf(newest.unit)])

\* C24: the status changes only along idle, connecting, approving, locking,
\* attesting, minting, complete, in that order and one step at a time, and
\* from complete or error back to idle by reset; a run that has started
\* reaches complete.
C24_BridgeRunOrder ==
    /\ [][status' # status
            => <<status, status'>> \in
                 {<<"idle", "connecting">>, <<"connecting", "approving">>,
                  <<"approving", "locking">>, <<"locking", "attesting">>,
                  <<"attesting", "minting">>, <<"minting", "complete">>,
                  <<"complete", "idle">>, <<"error", "idle">>}]_vars
    /\ [][(status = "complete" /\ status' = "complete")
            => (si' = si /\ txs' = txs /\ logs' = logs)]_vars
    /\ (status = "connecting") ~> (status = "complete")

\* C24 witness: the amount 100 was chosen and a run has ended with its two
\* transaction records.
C24_Witness ==
    /\ status = "complete"
    /\ txs = <<"Sepolia", "Solana">>
    /\ si = 5
    /\ amt = "100"

\* C26: "Check visible" and "Uncheck visible" change the ticks of the items
\* shown under the current filter only: an item that is not shown keeps the
\* tick it had.
C26_HiddenItemsKeepTicks ==
    [][(checkAll \/ uncheckAll)
         => \A j \in 1..Len(checklist) :
               checklist[j].id \notin FilteredIds
                 => (checklist[j].id \in checked' <=> checklist[j].id \in checked)]_vars

\* C30: the deployment gas estimateCosts returns for a source of L lines
\* and a result with F functions and V state variables in all is
\* 21000 + 200 * min(200 * L, 24576) + 15000 * F + 5000 * V; between two
\* loads with the same F and V it does not decrease when a line is added,
\* and it stays the same once the source has 123 lines or more.
C30_DeploymentGas ==
    /\ [](pc = "done"
            => LET L == Lines(source)
                   F == TotalFns(parsed.contracts)
                   V == TotalVars(parsed.contracts)
                   capped == IF 200 * L < 24576 THEN 200 * L ELSE 24576
               IN  costs.ethereum.deploymentGas
                     = 21000 + 200 * capped + 15000 * F + 5000 * V)
    /\ [][(pc = "ready" /\ pc' = "done" /\ costs # Null
             /\ TotalFns(parsed'.contracts) = TotalFns(parsed.contracts)
             /\ TotalVars(parsed'.contracts) = TotalVars(parsed.contracts))
            => /\ costs'.ethereum.deploymentGas >= costs.ethereum.deploymentGas
               /\ Lines(source) > 123
                    => costs'.ethereum.deploymentGas = costs.ethereum.deploymentGas]_vars

\* a file of 124 lines with a function is loaded: its estimate is the one
\* of the capped bytecode size
C30_Witness ==
    /\ pc = "done"
    /\ Lines(source) = 124
    /\ TotalFns(parsed.contracts) = 1
    /\ costs.ethereum.deploymentGas = 21000 + 200 * 24576 + 15000

=============================================================================
